---------------------------- MODULE Spec2Model ----------------------------
(***************************************************************************)
(* Lead-qualification chatbot (src/index.js): the scripted conversation    *)
(* state machine, the lead scorer and the lead record store they act on.   *)
(*                                                                         *)
(* JavaScript strings are sequences of one-character strings, so that      *)
(* trim(), toLowerCase() and includes() are computed as the code computes  *)
(* them.  JavaScript null is the value Null for text columns, "null" for   *)
(* the enumerated columns (lead_score, wants_meeting, name, source).       *)
(***************************************************************************)
EXTENDS Integers, Sequences, FiniteSets, TLC

(***************************************************************************)
(* String primitives                                                       *)
(***************************************************************************)
Null == <<"NULL">>

\* a property that the request did not carry: req.body.Body, req.body.phone
Undefined == <<"UNDEFINED">>

UpperAlpha == <<"A","B","C","D","E","F","G","H","I","J","K","L","M",
                "N","O","P","Q","R","S","T","U","V","W","X","Y","Z">>
LowerAlpha == <<"a","b","c","d","e","f","g","h","i","j","k","l","m",
                "n","o","p","q","r","s","t","u","v","w","x","y","z">>
Digits == {"0","1","2","3","4","5","6","7","8","9"}
WhiteSpace == {" ", "\t", "\n"}

LowerChar(c) ==
  IF \E i \in 1..26 : UpperAlpha[i] = c
  THEN LowerAlpha[CHOOSE i \in 1..26 : UpperAlpha[i] = c]
  ELSE c

\* String.prototype.toLowerCase
ToLowerCase(s) == [i \in 1..Len(s) |-> LowerChar(s[i])]

RECURSIVE TrimStart(_)
TrimStart(s) ==
  IF s # <<>> /\ Head(s) \in WhiteSpace THEN TrimStart(Tail(s)) ELSE s

RECURSIVE TrimEnd(_)
TrimEnd(s) ==
  IF s # <<>> /\ s[Len(s)] \in WhiteSpace
  THEN TrimEnd(SubSeq(s, 1, Len(s) - 1)) ELSE s

\* String.prototype.trim
Trim(s) == TrimEnd(TrimStart(s))

\* String.prototype.includes
Includes(s, w) ==
  \E i \in 0..(Len(s) - Len(w)) : SubSeq(s, i + 1, i + Len(w)) = w

\* truthiness of a nullable string: neither null, undefined nor ''
Truthy(v) == v # Null /\ v # Undefined /\ v # <<>>

\* phone.replace(/\D/g, '')
RECURSIVE StripNonDigits(_)
StripNonDigits(s) ==
  IF s = <<>> THEN <<>>
  ELSE IF Head(s) \in Digits THEN <<Head(s)>> \o StripNonDigits(Tail(s))
  ELSE StripNonDigits(Tail(s))

\* bug variant: the + of the international prefix is kept
normalizePhone_keepPlus(phone) ==
  IF ~Truthy(phone) THEN <<>>
  ELSE SelectSeq(phone, LAMBDA c : c \in Digits \cup {"+"})

normalizePhone(phone) ==
  IF ~Truthy(phone) THEN <<>> ELSE StripNonDigits(phone)

(***************************************************************************)
(* Constants of the script                                                 *)
(***************************************************************************)
QUALIFICATION_QUESTIONS == <<
  [field |-> "location",    question |-> "What area or city are you looking in?"],
  [field |-> "home_type",   question |-> "What type of home are you looking for? (house, condo, apartment, etc.)"],
  [field |-> "bedrooms",    question |-> "How many bedrooms do you need?"],
  [field |-> "budget",      question |-> "What's your budget or price range?"],
  [field |-> "timeline",    question |-> "When are you looking to move?"],
  [field |-> "preapproval", question |-> "Are you pre-approved for a mortgage or planning to pay cash?"],
  [field |-> "motivation",  question |-> "What's motivating your move? (new job, bigger space, investment, etc.)"] >>

ScriptLength == Len(QUALIFICATION_QUESTIONS)

QualFields == {QUALIFICATION_QUESTIONS[i].field : i \in 1..ScriptLength}

\* string literals of the code
S_unknown     == <<"u","n","k","n","o","w","n">>
S_not_sure    == <<"n","o","t"," ","s","u","r","e">>
S_dont_know   == <<"d","o","n","'","t"," ","k","n","o","w">>
S_idk         == <<"i","d","k">>
S_not_certain == <<"n","o","t"," ","c","e","r","t","a","i","n">>

UnknownPhrases == {S_not_sure, S_dont_know, S_unknown, S_idk, S_not_certain}

UrgentWords == {
  <<"a","s","a","p">>,
  <<"s","o","o","n">>,
  <<"i","m","m","e","d","i","a","t","e","l","y">>,
  <<"n","e","x","t"," ","m","o","n","t","h">>,
  <<"3","0"," ","d","a","y">>,
  <<"2"," ","w","e","e","k">>,
  <<"u","r","g","e","n","t">> }

positiveWords == {
  <<"y","e","s">>, <<"y","e","a","h">>, <<"y","e","p">>, <<"s","u","r","e">>,
  <<"o","k">>, <<"o","k","a","y">>,
  <<"s","o","u","n","d","s"," ","g","o","o","d">>,
  <<"p","e","r","f","e","c","t">>, <<"g","r","e","a","t">>,
  <<"a","w","e","s","o","m","e">>, <<"b","e","t">>,
  <<"d","e","f","i","n","i","t","e","l","y">>,
  <<"a","b","s","o","l","u","t","e","l","y">>,
  <<"l","e","t","s"," ","d","o"," ","i","t">>,
  <<"l","e","t","'","s"," ","d","o"," ","i","t">>,
  <<"s","c","h","e","d","u","l","e">>,
  <<"c","a","l","l"," ","m","e">>, <<"c","a","l","l">>,
  <<"m","e","e","t","i","n","g">>,
  <<"p","l","e","a","s","e">>, <<"r","e","a","d","y">> }

(***************************************************************************)
(* Lead scorer                                                             *)
(***************************************************************************)
ScoreFields == {"location", "budget", "timeline", "home_type", "bedrooms",
                "preapproval", "motivation"}

IsFilled(value) == Truthy(value) /\ value # S_unknown /\ Trim(value) # <<>>

filledCount(lead) == Cardinality({f \in ScoreFields : IsFilled(lead[f])})

isUrgent(lead) ==
  LET timeline == ToLowerCase(IF Truthy(lead.timeline) THEN lead.timeline ELSE <<>>)
  IN  \E w \in UrgentWords : Includes(timeline, w)

hasStrongBudget_anyValue(lead) == Truthy(lead.budget)

hasStrongBudget(lead) ==
  /\ Truthy(lead.budget)
  /\ ~Includes(lead.budget, S_unknown)
  /\ ~Includes(lead.budget, S_not_sure)

calculateLeadScore_withoutUrgency(lead) ==
  IF filledCount(lead) >= 5 /\ hasStrongBudget(lead) THEN "hot"
  ELSE IF filledCount(lead) >= 4 THEN "warm"
  ELSE "cold"

calculateLeadScore_keepsPrior(lead) ==
  IF lead.lead_score # "null" THEN lead.lead_score
  ELSE IF filledCount(lead) >= 5 /\ isUrgent(lead) /\ hasStrongBudget(lead) THEN "hot"
  ELSE IF filledCount(lead) >= 4 THEN "warm"
  ELSE "cold"

calculateLeadScore(lead) ==
  IF filledCount(lead) >= 5 /\ isUrgent(lead) /\ hasStrongBudget(lead) THEN "hot"
  ELSE IF filledCount(lead) >= 4 THEN "warm"
  ELSE "cold"

(***************************************************************************)
(* Classifiers                                                             *)
(***************************************************************************)
\* bug variant: "thanks" taken as a yes
isPositiveResponse_thanks(message) ==
  IF ~Truthy(message) THEN FALSE
  ELSE LET text == Trim(ToLowerCase(message))
       IN  \E word \in positiveWords \cup {<<"t","h","a","n","k","s">>} :
             Includes(text, word)

isPositiveResponse_wholeWord(message) ==
  /\ Truthy(message)
  /\ ToLowerCase(Trim(message)) \in positiveWords

isPositiveResponse(message) ==
  IF ~Truthy(message) THEN FALSE
  ELSE LET text == Trim(ToLowerCase(message))
       IN  \E word \in positiveWords : Includes(text, word)

LooksUnknown(response) ==
  \E p \in UnknownPhrases : Includes(ToLowerCase(response), p)

\* bug variant: the answer is stored as received, not trimmed
updateLeadField_untrimmed(lead, currentQuestionIndex, userResponse) ==
  IF currentQuestionIndex >= ScriptLength THEN lead
  ELSE LET field == QUALIFICATION_QUESTIONS[currentQuestionIndex + 1].field
       IN  [lead EXCEPT ![field] =
              IF LooksUnknown(userResponse) THEN S_unknown ELSE userResponse]

updateLeadField(lead, currentQuestionIndex, userResponse) ==
  IF currentQuestionIndex >= ScriptLength THEN lead
  ELSE LET field    == QUALIFICATION_QUESTIONS[currentQuestionIndex + 1].field
           response == Trim(userResponse)
       IN  [lead EXCEPT ![field] =
              IF LooksUnknown(response) THEN S_unknown ELSE response]

(***************************************************************************)
(* Bounds and inputs                                                       *)
(***************************************************************************)
\* webhook calls explored per behaviour
MaxMessages == 9

\* webhook calls explored per behaviour when calls overlap, and how many overlap
MaxRaceMessages == 10
MaxInFlight == 2

\* Body values sent by the lead
T_Phoenix  == <<"P","h","o","e","n","i","x">>
T_not_sure == <<"n","o","t"," ","s","u","r","e">>
T_ASAP     == <<" ","A","S","A","P"," ">>

Texts == {T_not_sure, T_ASAP}

\* Body values of a conversation's opening message
FirstTexts == Texts \cup {T_Phoenix}

\* From value of the webhook request, and the phone typed on the dashboard
FromAddress == <<"w","h","a","t","s","a","p","p",":","+","1","5","5","5">>
ManualPhone == <<"+","1"," ","5","5","5">>

LeadNames == {"Ana"}

(***************************************************************************)
(* Lead record store                                                       *)
(***************************************************************************)
VARIABLES
  leads,     \* the leads table: normalized phone -> row
  last,      \* the webhook call processed last: its inputs and its reply
  nMessages, \* webhook calls received so far
  turnsOk,   \* every interview-turn upsert issued so far has succeeded
  calls,     \* webhook calls in flight: their position, lead snapshot and text
  messages,  \* the messages table, in the order of insertion
  http,      \* the webhook request answered last: its status and the calls it made
  eval       \* a function applied on its own: its name, argument and result

vars == <<leads, last, nMessages, turnsOk, calls, messages, http, eval>>

\* A row inserted without a value for a column gets the column's default; the
\* code reads an absent index as 0 (|| 0) and an absent flag as false.
NewRow(phone) ==
  [phone                  |-> phone,
   name                   |-> "null",
   source                 |-> "null",
   current_question_index |-> 0,
   qualification_complete |-> FALSE,
   asked_for_meeting      |-> FALSE,
   meeting_scheduled      |-> FALSE,
   wants_meeting          |-> "null",
   meeting_notes          |-> Null,
   notes                  |-> Null,
   lead_score             |-> "null",
   location               |-> Null,
   home_type              |-> Null,
   bedrooms               |-> Null,
   budget                 |-> Null,
   timeline               |-> Null,
   preapproval            |-> Null,
   motivation             |-> Null]

\* merge on conflict: the columns of the update replace the stored ones
MergeRow(row, updates) ==
  [k \in DOMAIN row |-> IF k \in DOMAIN updates THEN updates[k] ELSE row[k]]

\* the headers sent with every store request: the preferences of Prefer
supabaseHeaders == [Prefer |-> {"return=minimal"}]

\* the request saveLeadToSupabase posts: conflict target of the URL, headers,
\* and the row (updated_at left out)
UpsertRequest(phone, updates) ==
  [on_conflict |-> "phone",
   headers     |-> supabaseHeaders,
   data        |-> [k \in DOMAIN updates \cup {"phone"} |->
                      IF k = "phone" THEN normalizePhone(phone) ELSE updates[k]]]

\* the store resolves a conflict on the target by merging only when the
\* request asks for it; otherwise the POST is a plain insert
MergesOnConflict(request) ==
  /\ request.on_conflict = "phone"
  /\ "resolution=merge-duplicates" \in request.headers.Prefer

\* bug variant: the row posted replaces the row on record
saveLeadToSupabase_replaceRow(table, phone, updates, ok) ==
  LET normalizedPhone == normalizePhone(phone)
      data == UpsertRequest(phone, updates).data
  IN  IF ~ok THEN table
      ELSE [p \in DOMAIN table \cup {normalizedPhone} |->
              IF p = normalizedPhone THEN MergeRow(NewRow(p), data) ELSE table[p]]

saveLeadToSupabase_keepNewer(table, phone, updates, ok) ==
  LET normalizedPhone == normalizePhone(phone)
      data == UpsertRequest(phone, updates).data
      stale == /\ normalizedPhone \in DOMAIN table
               /\ "current_question_index" \in DOMAIN updates
               /\ updates.current_question_index
                    <= table[normalizedPhone].current_question_index
  IN  IF ~ok \/ stale THEN table
      ELSE [p \in DOMAIN table \cup {normalizedPhone} |->
              IF p = normalizedPhone
              THEN MergeRow(IF p \in DOMAIN table THEN table[p] ELSE NewRow(p), data)
              ELSE table[p]]

\* POST /rest/v1/leads?on_conflict=phone, with the outcome of the request:
\* ok when the store has taken the row, merging it into the row on record;
\* a failed request is swallowed and leaves the table as it was
saveLeadToSupabase(table, phone, updates, ok) ==
  LET normalizedPhone == normalizePhone(phone)
      data == UpsertRequest(phone, updates).data
  IN  IF ~ok THEN table
      ELSE [p \in DOMAIN table \cup {normalizedPhone} |->
              IF p = normalizedPhone
              THEN MergeRow(IF p \in DOMAIN table THEN table[p] ELSE NewRow(p), data)
              ELSE table[p]]

\* the state handed to a lead that is not on record, or whose read failed
DefaultLeadState(normalizedPhone) ==
  [phone                  |-> normalizedPhone,
   current_question_index |-> 0,
   qualification_complete |-> FALSE,
   asked_for_meeting      |-> FALSE,
   meeting_scheduled      |-> FALSE,
   lead_score             |-> "null",
   location               |-> Null,
   home_type              |-> Null,
   bedrooms               |-> Null,
   budget                 |-> Null,
   timeline               |-> Null,
   preapproval            |-> Null,
   motivation             |-> Null]

getCurrentLeadState(table, phone, readOk) ==
  LET normalizedPhone == normalizePhone(phone)
  IN  IF readOk /\ normalizedPhone \in DOMAIN table
      THEN table[normalizedPhone]
      ELSE DefaultLeadState(normalizedPhone)

(***************************************************************************)
(* Conversation state machine                                              *)
(***************************************************************************)
AlreadyHandledReply ==
  [type |-> "already_handled",
   message |-> <<"Thanks for your message! Our team will be in touch shortly to confirm the meeting details.">>]

\* bug variant: the question just answered is asked again
QuestionReply_repeated(index) ==
  [type |-> "question",
   message |-> <<QUALIFICATION_QUESTIONS[index].question>>]

QuestionReply(index) ==
  [type |-> "question",
   message |-> <<QUALIFICATION_QUESTIONS[index + 1].question>>]

SchedulingReply(score) ==
  [type |-> "scheduling",
   message |-> <<IF score = "hot" THEN "fire" ELSE IF score = "warm" THEN "sun" ELSE "snowflake",
                 " Thanks for the information! Based on what you've shared, you're a ",
                 score,
                 " lead. Would you like to schedule a meeting with one of our agents?">>]

MeetingConfirmedReply ==
  [type |-> "meeting_confirmed",
   message |-> <<"Great! An agent will reach out to you within the next hour to schedule the meeting. Thank you!">>]

MeetingDeclinedReply ==
  [type |-> "meeting_declined",
   message |-> <<"Thank you for your interest! We will keep your information on file and reach out if we find properties that match your criteria.">>]

FallbackReply ==
  [type |-> "fallback",
   message |-> <<"Thanks for your message! Our team will review your information and get back to you shortly.">>]

\* bug variant: the completion flag is never set
InterviewUpdate_neverComplete(lead, userResponse) ==
  LET currentIndex == lead.current_question_index
      answered == updateLeadField(lead, currentIndex, userResponse)
      moved    == [answered EXCEPT !.current_question_index = currentIndex + 1]
  IN  IF moved.current_question_index = ScriptLength
      THEN [moved EXCEPT !.lead_score = calculateLeadScore(moved)]
      ELSE moved

\* the lead the interview branch saves: the answer written, the index moved,
\* and on the last question the completion flag and the score
InterviewUpdate(lead, userResponse) ==
  LET currentIndex == lead.current_question_index
      answered == updateLeadField(lead, currentIndex, userResponse)
      moved    == [answered EXCEPT !.current_question_index = currentIndex + 1]
  IN  IF moved.current_question_index = ScriptLength
      THEN [moved EXCEPT !.qualification_complete = TRUE,
                         !.lead_score = calculateLeadScore(moved)]
      ELSE moved

\* the three conditions getNextStep tests, in the order it tests them

\* bug variants of the first test: left out; made only once the interview is over
MeetingAlreadyScheduled_never(lead) == FALSE

MeetingAlreadyScheduled_afterInterview(lead) ==
  lead.meeting_scheduled /\ lead.current_question_index >= ScriptLength

MeetingAlreadyScheduled(lead) == lead.meeting_scheduled

\* bug variant: the last question is not counted
StillAskingQuestions_offByOne(lead) == lead.current_question_index < ScriptLength - 1

StillAskingQuestions(lead) == lead.current_question_index < ScriptLength

AwaitingSchedulingResponse(lead) ==
  lead.asked_for_meeting /\ ~lead.meeting_scheduled

\* bug variant: the fallback branch starts the interview again
getNextStep_fallbackRestarts(lead, userResponse) ==
  IF MeetingAlreadyScheduled(lead)
  THEN [reply |-> AlreadyHandledReply, upserts |-> <<>>]
  ELSE IF StillAskingQuestions(lead)
  THEN LET updatedLead == InterviewUpdate(lead, userResponse)
       IN  IF updatedLead.current_question_index < ScriptLength
           THEN [reply   |-> QuestionReply(updatedLead.current_question_index),
                 upserts |-> <<updatedLead>>]
           ELSE [reply   |-> SchedulingReply(updatedLead.lead_score),
                 upserts |-> <<updatedLead, [asked_for_meeting |-> TRUE]>>]
  ELSE IF AwaitingSchedulingResponse(lead)
  THEN IF isPositiveResponse(userResponse)
       THEN [reply   |-> MeetingConfirmedReply,
             upserts |-> <<[meeting_scheduled |-> TRUE,
                            wants_meeting     |-> "true",
                            meeting_notes     |-> userResponse]>>]
       ELSE [reply   |-> MeetingDeclinedReply,
             upserts |-> <<[meeting_scheduled |-> TRUE,
                            wants_meeting     |-> "false"]>>]
  ELSE [reply   |-> FallbackReply,
        upserts |-> <<[current_question_index |-> 0,
                       qualification_complete |-> FALSE]>>]

\* getNextStep: the reply and the lead upserts it issues, in order
getNextStep(lead, userResponse) ==
  IF MeetingAlreadyScheduled(lead)
  THEN [reply |-> AlreadyHandledReply, upserts |-> <<>>]
  ELSE IF StillAskingQuestions(lead)
  THEN LET updatedLead == InterviewUpdate(lead, userResponse)
       IN  IF updatedLead.current_question_index < ScriptLength
           THEN [reply   |-> QuestionReply(updatedLead.current_question_index),
                 upserts |-> <<updatedLead>>]
           ELSE [reply   |-> SchedulingReply(updatedLead.lead_score),
                 upserts |-> <<updatedLead, [asked_for_meeting |-> TRUE]>>]
  ELSE IF AwaitingSchedulingResponse(lead)
  THEN IF isPositiveResponse(userResponse)
       THEN [reply   |-> MeetingConfirmedReply,
             upserts |-> <<[meeting_scheduled |-> TRUE,
                            wants_meeting     |-> "true",
                            meeting_notes     |-> userResponse]>>]
       ELSE [reply   |-> MeetingDeclinedReply,
             upserts |-> <<[meeting_scheduled |-> TRUE,
                            wants_meeting     |-> "false"]>>]
  ELSE [reply |-> FallbackReply, upserts |-> <<>>]

\* the table after the upserts of one call, each with its own outcome
RECURSIVE ApplyUpserts(_, _, _, _)
ApplyUpserts(table, phone, upserts, oks) ==
  IF upserts = <<>> THEN table
  ELSE ApplyUpserts(saveLeadToSupabase(table, phone, Head(upserts), Head(oks)),
                    phone, Tail(upserts), Tail(oks))

(***************************************************************************)
(* Operations                                                              *)
(***************************************************************************)
\* a request as the server receives it: the route, the phone-like input (From,
\* body.phone or :phone), the name of POST /lead and the text (Body, message
\* or notes)
Request(endpoint, phone, name, text) ==
  [endpoint |-> endpoint, phone |-> phone, name |-> name, text |-> text]

\* no request answered yet
NoRequest == [status |-> 0, calls |-> <<>>, body |-> <<>>,
              request |-> Request("none", <<>>, "", <<>>)]

\* no function applied yet
NoEval == [fn |-> "none", arg |-> <<>>, result |-> <<>>]

NoCall ==
  [kind |-> "none", lead |-> DefaultLeadState(<<>>), text |-> <<>>,
   reply |-> [type |-> "none", message |-> <<>>], oks |-> <<>>, readOk |-> TRUE]

IdleCall ==
  [pc |-> "idle", lead |-> DefaultLeadState(<<>>), text |-> <<>>,
   readOk |-> TRUE, oks |-> <<>>]

CallSlots == 1..MaxInFlight

Init ==
  /\ leads = [p \in {} |-> NewRow(p)]
  /\ last = NoCall
  /\ nMessages = 0
  /\ turnsOk = TRUE
  /\ calls = [c \in CallSlots |-> IdleCall]
  /\ messages = <<>>
  /\ http = NoRequest
  /\ eval = NoEval

\* handleConversation as POST /whatsapp-webhook calls it for a Body that is a
\* string: getCurrentLeadState, then getNextStep, run to its end with no other
\* request in between; every upsert the step issues succeeds or fails on its
\* own.  The request around it (message log, delivery, response) is
\* WhatsappWebhook.
Webhook(from, body, readOk) ==
  LET lead == getCurrentLeadState(leads, from, readOk)
      step == getNextStep(lead, body)
  IN  /\ nMessages < MaxMessages
      /\ \E oks \in [1..Len(step.upserts) -> BOOLEAN] :
           /\ leads' = ApplyUpserts(leads, lead.phone, step.upserts, oks)
           /\ last' = [kind |-> "webhook", lead |-> lead, text |-> body,
                       reply |-> step.reply, oks |-> oks, readOk |-> readOk]
           /\ turnsOk' = (turnsOk /\ (step.reply.type \in {"question", "scheduling"} => oks[1]))
      /\ nMessages' = nMessages + 1
      /\ UNCHANGED <<calls, messages, http, eval>>

\* POST /lead
CreateLead(name, phone, ok) ==
  /\ leads' = saveLeadToSupabase(leads, phone, [name |-> name, source |-> "manual"], ok)
  /\ last' = [NoCall EXCEPT !.kind = "create", !.oks = <<ok>>]
  /\ UNCHANGED <<nMessages, turnsOk, calls, messages, http, eval>>

Next ==
  \/ \E body \in (IF nMessages = 0 THEN FirstTexts ELSE Texts), readOk \in BOOLEAN :
       Webhook(FromAddress, body, readOk)
  \/ \E name \in LeadNames, ok \in BOOLEAN :
       CreateLead(name, ManualPhone, ok)

Spec == Init /\ [][Next]_vars

\* The conversation of one lead when every store request succeeds: the read
\* of getCurrentLeadState and every upsert of getNextStep, one call at a time.
WebhookAllOk(from, body) ==
  /\ Webhook(from, body, TRUE)
  /\ \A i \in DOMAIN last'.oks : last'.oks[i]

NextSerial ==
  \E body \in (IF nMessages = 0 THEN FirstTexts ELSE Texts) :
    WebhookAllOk(FromAddress, body)

SpecSerial == Init /\ [][NextSerial]_vars

(***************************************************************************)
(* The same handler when webhook calls overlap: every await of the handler *)
(* is a point where another call may run.                                  *)
(***************************************************************************)
RaceTexts == {T_not_sure}

Finished(c, lead, body, reply, oks, readOk) ==
  /\ calls' = [calls EXCEPT ![c] = IdleCall]
  /\ last' = [kind |-> "webhook", lead |-> lead, text |-> body,
              reply |-> reply, oks |-> oks, readOk |-> readOk]

\* handleConversation up to the end of `await getCurrentLeadState(phone)`
ReadLead(c, from, body, readOk) ==
  /\ calls[c].pc = "idle"
  /\ \A d \in CallSlots : d < c => calls[d].pc # "idle"   \* slots are interchangeable
  /\ nMessages < MaxRaceMessages
  /\ nMessages' = nMessages + 1
  /\ calls' = [calls EXCEPT ![c] =
       [pc |-> "read", lead |-> getCurrentLeadState(leads, from, readOk),
        text |-> body, readOk |-> readOk, oks |-> <<>>]]
  /\ UNCHANGED <<leads, last, turnsOk, messages, http, eval>>

\* getNextStep up to the end of its first `await saveLeadToSupabase`, or to
\* its return when the branch taken issues no upsert
FirstUpsert(c) ==
  LET lead == calls[c].lead
      step == getNextStep(lead, calls[c].text)
  IN  /\ calls[c].pc = "read"
      /\ \E oks \in [1..(IF step.upserts = <<>> THEN 0 ELSE 1) -> BOOLEAN] :
           /\ leads' = ApplyUpserts(leads, lead.phone, SubSeq(step.upserts, 1, Len(oks)), oks)
           /\ IF Len(step.upserts) = 2
              THEN /\ calls' = [calls EXCEPT ![c].pc = "offer", ![c].oks = oks]
                   /\ UNCHANGED last
              ELSE Finished(c, lead, calls[c].text, step.reply, oks, calls[c].readOk)
           /\ turnsOk' = (turnsOk /\ (step.reply.type \in {"question", "scheduling"} => oks[1]))
      /\ UNCHANGED <<nMessages, messages, http, eval>>

\* getNextStep from there to its return: the asked_for_meeting upsert
SecondUpsert(c) ==
  LET lead == calls[c].lead
      step == getNextStep(lead, calls[c].text)
  IN  /\ calls[c].pc = "offer"
      /\ \E ok \in BOOLEAN :
           /\ leads' = saveLeadToSupabase(leads, lead.phone, step.upserts[2], ok)
           /\ Finished(c, lead, calls[c].text, step.reply,
                       calls[c].oks \o <<ok>>, calls[c].readOk)
      /\ UNCHANGED <<nMessages, turnsOk, messages, http, eval>>

NextRace ==
  \/ \E c \in CallSlots, body \in RaceTexts : ReadLead(c, FromAddress, body, TRUE)
  \/ \E c \in CallSlots : FirstUpsert(c)
  \/ \E c \in CallSlots : SecondUpsert(c)

SpecRace == Init /\ [][NextRace]_vars

\* The opening of a conversation when its first messages overlap: every Body
\* value, failing reads included.  The index stays below 6, so no call gets to
\* the second upsert.
MaxOverlapMessages == 3

NextOverlap ==
  \/ \E c \in CallSlots, readOk \in BOOLEAN,
          body \in (IF nMessages = 0 THEN FirstTexts ELSE Texts) :
       /\ nMessages < MaxOverlapMessages
       /\ ReadLead(c, FromAddress, body, readOk)
  \/ \E c \in CallSlots : FirstUpsert(c)

SpecOverlap == Init /\ [][NextOverlap]_vars

(***************************************************************************)
(* The webhook request as a whole: message log, conversation, delivery and *)
(* the response to the messaging provider.                                 *)
(***************************************************************************)
\* requests explored per behaviour
MaxRequests == 2

HttpBodies == {T_ASAP, Undefined}

\* message.trim() is evaluated before the try block of saveMessageToSupabase:
\* on an undefined message it raises a TypeError that the function lets through
saveMessageThrows(message) == message = Undefined

saveLeadThrows_rethrow(ok) == ~ok

\* the catch block of saveLeadToSupabase returns { success: false }
saveLeadThrows(ok) == FALSE

sendTwilioThrows_rethrow(ok) == ~ok

\* the catch block of sendTwilioMessage returns { success: false }
sendTwilioThrows(ok) == FALSE

\* bug variant: one message kept per lead and sender
saveMessageToSupabase_latestOnly(log, leadPhone, sender, message, ok) ==
  IF ok
  THEN Append(SelectSeq(log, LAMBDA m : m.lead_phone # normalizePhone(leadPhone)
                                         \/ m.sender # sender),
              [lead_phone |-> normalizePhone(leadPhone),
               sender     |-> sender,
               message    |-> Trim(message)])
  ELSE log

\* POST /rest/v1/messages, with the outcome of the request
saveMessageToSupabase(log, leadPhone, sender, message, ok) ==
  IF ok
  THEN Append(log, [lead_phone |-> normalizePhone(leadPhone),
                    sender     |-> sender,
                    message    |-> Trim(message)])
  ELSE log

\* the `to` of twilioClient.messages.create
TwilioTo(to) == <<"w","h","a","t","s","a","p","p",":">> \o to

\* one call to a collaborator: which, on what key or address, with what text,
\* and whether it succeeded
CollaboratorCall(op, key, text, ok) ==
  [op |-> op, key |-> key, text |-> text, ok |-> ok]

\* a lead that has answered the first six questions
RowAtLastQuestion ==
  [NewRow(normalizePhone(FromAddress)) EXCEPT
     !.current_question_index = ScriptLength - 1,
     !.location    = T_Phoenix,
     !.home_type   = S_unknown,
     !.bedrooms    = <<"A","S","A","P">>,
     !.budget      = <<"A","S","A","P">>,
     !.timeline    = <<"A","S","A","P">>,
     !.preapproval = S_unknown]

\* the leads table at the start: empty, or holding an interview in progress
InitHttp ==
  /\ leads \in {[p \in {} |-> NewRow(p)],
                [p \in {normalizePhone(FromAddress)} |-> RowAtLastQuestion]}
  /\ last = NoCall
  /\ nMessages = 0
  /\ turnsOk = TRUE
  /\ calls = [c \in CallSlots |-> IdleCall]
  /\ messages = <<>>
  /\ http = NoRequest
  /\ eval = NoEval

\* POST /whatsapp-webhook, from the request to the response
WhatsappWebhook(from, body, readOk, logLeadOk, logAiOk, sendOk) ==
  /\ nMessages < MaxRequests
  /\ nMessages' = nMessages + 1
  /\ UNCHANGED <<calls, eval>>
  /\ IF saveMessageThrows(body)
     THEN \* caught by the handler's catch: 500, nothing else was called
          /\ http' = [status |-> 500, calls |-> <<>>, body |-> <<>>,
                      request |-> Request("POST /whatsapp-webhook", from, "", body)]
          /\ last' = [NoCall EXCEPT !.kind = "aborted", !.text = body]
          /\ UNCHANGED <<leads, messages, turnsOk>>
     ELSE LET lead == getCurrentLeadState(leads, from, readOk)
              step == getNextStep(lead, body)
              key  == normalizePhone(from)
              log1 == saveMessageToSupabase(messages, from, "lead", body, logLeadOk)
              log2 == saveMessageToSupabase(log1, from, "ai", step.reply.message, logAiOk)
          IN  \E oks \in [1..Len(step.upserts) -> BOOLEAN] :
                LET thrownAt == {i \in 1..Len(oks) : saveLeadThrows(oks[i])}
                    issued   == IF thrownAt = {} THEN Len(oks)
                                ELSE CHOOSE i \in thrownAt : \A j \in thrownAt : i <= j
                    before   == <<CollaboratorCall("append", key, Trim(body), logLeadOk),
                                  CollaboratorCall("get", key, <<>>, readOk)>>
                                \o [i \in 1..issued |->
                                      CollaboratorCall("upsert", lead.phone, <<>>, oks[i])]
                    after    == <<CollaboratorCall("append", key, Trim(step.reply.message), logAiOk),
                                  CollaboratorCall("send", TwilioTo(from), step.reply.message, sendOk)>>
                IN  /\ leads' = ApplyUpserts(leads, lead.phone,
                                             SubSeq(step.upserts, 1, issued),
                                             SubSeq(oks, 1, issued))
                    /\ last' = [kind |-> "webhook", lead |-> lead, text |-> body,
                                reply |-> step.reply, oks |-> SubSeq(oks, 1, issued),
                                readOk |-> readOk]
                    /\ turnsOk' = (turnsOk /\ (step.reply.type \in {"question", "scheduling"}
                                                 => oks[1]))
                    /\ IF thrownAt # {}
                       THEN /\ messages' = log1
                            /\ http' = [status |-> 500, calls |-> before, body |-> <<>>,
                                        request |-> Request("POST /whatsapp-webhook",
                                                            from, "", body)]
                       ELSE /\ messages' = log2
                            /\ http' = [status |-> IF sendTwilioThrows(sendOk) THEN 500 ELSE 200,
                                        calls  |-> before \o after, body |-> <<>>,
                                        request |-> Request("POST /whatsapp-webhook",
                                                            from, "", body)]

NextHttp ==
  \E body \in HttpBodies, readOk \in BOOLEAN, logLeadOk \in BOOLEAN,
     logAiOk \in BOOLEAN, sendOk \in BOOLEAN :
       WhatsappWebhook(FromAddress, body, readOk, logLeadOk, logAiOk, sendOk)

SpecHttp == InitHttp /\ [][NextHttp]_vars

(***************************************************************************)
(* The administrative endpoints, next to the webhook                       *)
(***************************************************************************)
M_Hello     == <<" ","H","e","l","l","o"," ">>
M_blank     == <<" "," ">>
N_call_back == <<"c","a","l","l"," ","b","a","c","k">>

\* the message of an agent reply: a text, white space, '', none
ReplyMessages == {M_Hello, M_blank, <<>>, Undefined}

\* the notes of a patch: a text, '', null, none
NotesValues == {N_call_back, <<>>, Null, Undefined}

\* the name of POST /lead: a name, or none ('' or absent)
RequestNames == LeadNames \cup {""}

\* the :phone of a dashboard route: as typed, or the key as GET /leads lists it
AdminPhones == {ManualPhone, normalizePhone(FromAddress)}

\* QUALIFICATION_QUESTIONS[0].question, as a reply
FirstQuestion == <<QUALIFICATION_QUESTIONS[1].question>>

\* !name || !phone
LeadIsInvalid(name, phone) == name = "" \/ ~Truthy(phone)

\* bug variant: the message is tested as it comes, not trimmed
ReplyIsInvalid_untrimmed(message) == ~Truthy(message)

\* !message?.trim()
ReplyIsInvalid(message) == ~Truthy(message) \/ Trim(message) = <<>>

\* typeof notes !== 'string'
NotesAreInvalid(notes) == notes \in {Null, Undefined}

\* PATCH /rest/v1/leads?phone=eq.<key> with { notes }: the rows of that key
\* take the notes; a failed request changes nothing
PatchNotesInStore(table, key, notes, ok) ==
  IF ok /\ key \in DOMAIN table
  THEN [table EXCEPT ![key].notes = notes]
  ELSE table

\* GET /rest/v1/messages?lead_phone=eq.<key>&order=created_at.asc
MessagesOf(log, key) == SelectSeq(log, LAMBDA m : m.lead_phone = key)

Response(status, collaboratorCalls, body, request) ==
  [status |-> status, calls |-> collaboratorCalls, body |-> body, request |-> request]

\* POST /lead
PostLead(name, phone, saveOk, logOk) ==
  LET request == Request("POST /lead", phone, name, <<>>)
      key     == normalizePhone(phone)
      upsert  == CollaboratorCall("upsert", key, <<>>, saveOk)
  IN  /\ nMessages < MaxRequests
      /\ nMessages' = nMessages + 1
      /\ last' = [NoCall EXCEPT !.kind = "create"]
      /\ UNCHANGED <<turnsOk, calls, eval>>
      /\ IF LeadIsInvalid(name, phone)
         THEN /\ http' = Response(400, <<>>, <<>>, request)
              /\ UNCHANGED <<leads, messages>>
         ELSE /\ leads' = saveLeadToSupabase(leads, phone,
                                             [name |-> name, source |-> "manual"], saveOk)
              /\ IF ~saveOk
                 THEN /\ http' = Response(500, <<upsert>>, <<>>, request)
                      /\ UNCHANGED messages
                 ELSE /\ messages' = saveMessageToSupabase(messages, phone, "ai",
                                                           FirstQuestion, logOk)
                      /\ http' = Response(200,
                           <<upsert, CollaboratorCall("append", key, FirstQuestion, logOk)>>,
                           <<>>, request)

\* POST /leads/:phone/reply
AgentReply(phone, message, logOk, sendOk) ==
  LET request         == Request("POST /leads/:phone/reply", phone, "", message)
      normalizedPhone == normalizePhone(phone)
  IN  /\ nMessages < MaxRequests
      /\ nMessages' = nMessages + 1
      /\ last' = [NoCall EXCEPT !.kind = "reply"]
      /\ UNCHANGED <<leads, turnsOk, calls, eval>>
      /\ IF ReplyIsInvalid(message)
         THEN /\ http' = Response(400, <<>>, <<>>, request)
              /\ UNCHANGED messages
         ELSE /\ messages' = saveMessageToSupabase(messages, normalizedPhone, "agent",
                                                   message, logOk)
              /\ http' = Response(IF sendTwilioThrows(sendOk) THEN 500 ELSE 200,
                   <<CollaboratorCall("append", normalizePhone(normalizedPhone),
                                      Trim(message), logOk),
                     CollaboratorCall("send", TwilioTo(<<"+">> \o normalizedPhone),
                                      message, sendOk)>>,
                   <<>>, request)

\* PATCH /leads/:phone/notes
PatchNotes(phone, notes, ok) ==
  LET request         == Request("PATCH /leads/:phone/notes", phone, "", notes)
      normalizedPhone == normalizePhone(phone)
  IN  /\ nMessages < MaxRequests
      /\ nMessages' = nMessages + 1
      /\ last' = [NoCall EXCEPT !.kind = "notes"]
      /\ UNCHANGED <<messages, turnsOk, calls, eval>>
      /\ IF NotesAreInvalid(notes)
         THEN /\ http' = Response(400, <<>>, <<>>, request)
              /\ UNCHANGED leads
         ELSE /\ leads' = PatchNotesInStore(leads, normalizedPhone, notes, ok)
              /\ http' = Response(IF ok THEN 200 ELSE 500,
                   <<CollaboratorCall("patch", normalizedPhone, notes, ok)>>,
                   <<>>, request)

\* GET /leads/:phone/messages
ListMessages(phone, ok) ==
  LET request         == Request("GET /leads/:phone/messages", phone, "", <<>>)
      normalizedPhone == normalizePhone(phone)
  IN  /\ nMessages < MaxRequests
      /\ nMessages' = nMessages + 1
      /\ last' = [NoCall EXCEPT !.kind = "list"]
      /\ UNCHANGED <<leads, messages, turnsOk, calls, eval>>
      /\ http' = Response(IF ok THEN 200 ELSE 500,
                   <<CollaboratorCall("list", normalizedPhone, <<>>, ok)>>,
                   IF ok THEN MessagesOf(messages, normalizedPhone) ELSE <<>>,
                   request)

NextAdmin ==
  \/ \E name \in RequestNames, phone \in {ManualPhone, Undefined},
        saveOk \in BOOLEAN, logOk \in BOOLEAN :
       PostLead(name, phone, saveOk, logOk)
  \/ \E phone \in AdminPhones, message \in ReplyMessages,
        logOk \in BOOLEAN, sendOk \in BOOLEAN :
       AgentReply(phone, message, logOk, sendOk)
  \/ \E phone \in AdminPhones, notes \in NotesValues, ok \in BOOLEAN :
       PatchNotes(phone, notes, ok)
  \/ \E phone \in AdminPhones, ok \in BOOLEAN :
       ListMessages(phone, ok)
  \/ \E readOk \in BOOLEAN, logLeadOk \in BOOLEAN,
        logAiOk \in BOOLEAN, sendOk \in BOOLEAN :
       WhatsappWebhook(FromAddress, T_ASAP, readOk, logLeadOk, logAiOk, sendOk)

SpecAdmin == Init /\ [][NextAdmin]_vars

(***************************************************************************)
(* The dashboard routes of the earlier server (src/unnamed/part_000, lines *)
(* 1-454), which keeps the same two tables                                 *)
(***************************************************************************)
\* POST /rest/v1/leads?on_conflict=phone with resolution=merge-duplicates;
\* a failed request is swallowed
saveLeadToSupabaseV0(table, phone, updates, ok) ==
  LET norm == normalizePhone(phone)
      data == [k \in DOMAIN updates \cup {"phone"} |->
                 IF k = "phone" THEN norm ELSE updates[k]]
  IN  IF ~ok THEN table
      ELSE [p \in DOMAIN table \cup {norm} |->
              IF p = norm
              THEN MergeRow(IF p \in DOMAIN table THEN table[p] ELSE NewRow(p), data)
              ELSE table[p]]

\* POST /rest/v1/messages: the key is normalized, the text stored as handed over
saveMessageToSupabaseV0(log, leadPhone, sender, message, ok) ==
  IF ok
  THEN Append(log, [lead_phone |-> normalizePhone(leadPhone),
                    sender     |-> sender,
                    message    |-> message])
  ELSE log

\* POST /lead
PostLeadV0(name, phone, saveOk, logOk) ==
  LET request == Request("POST /lead", phone, name, <<>>)
      key     == normalizePhone(phone)
  IN  /\ nMessages < MaxRequests
      /\ nMessages' = nMessages + 1
      /\ last' = [NoCall EXCEPT !.kind = "create"]
      /\ UNCHANGED <<turnsOk, calls, eval>>
      /\ IF LeadIsInvalid(name, phone)
         THEN /\ http' = Response(400, <<>>, <<>>, request)
              /\ UNCHANGED <<leads, messages>>
         ELSE /\ leads' = saveLeadToSupabaseV0(leads, phone,
                                               [name |-> name, source |-> "unknown"], saveOk)
              /\ messages' = saveMessageToSupabaseV0(messages, phone, "ai",
                                                     FirstQuestion, logOk)
              /\ http' = Response(200,
                   <<CollaboratorCall("upsert", key, <<>>, saveOk),
                     CollaboratorCall("append", key, FirstQuestion, logOk)>>,
                   <<>>, request)

\* GET /leads/:phone/messages: the filter is the :phone of the route as it came
ListMessagesV0(phone, ok) ==
  /\ nMessages < MaxRequests
  /\ nMessages' = nMessages + 1
  /\ last' = [NoCall EXCEPT !.kind = "list"]
  /\ UNCHANGED <<leads, messages, turnsOk, calls, eval>>
  /\ http' = Response(IF ok THEN 200 ELSE 500,
               <<CollaboratorCall("list", phone, <<>>, ok)>>,
               IF ok THEN MessagesOf(messages, phone) ELSE <<>>,
               Request("GET /leads/:phone/messages", phone, "", <<>>))

\* POST /leads/:phone/reply
AgentReplyV0(phone, message, logOk, sendOk) ==
  LET request == Request("POST /leads/:phone/reply", phone, "", message)
  IN  /\ nMessages < MaxRequests
      /\ nMessages' = nMessages + 1
      /\ last' = [NoCall EXCEPT !.kind = "reply"]
      /\ UNCHANGED <<leads, turnsOk, calls, eval>>
      /\ IF ReplyIsInvalid(message)
         THEN /\ http' = Response(400, <<>>, <<>>, request)
              /\ UNCHANGED messages
         ELSE /\ messages' = saveMessageToSupabaseV0(messages, phone, "agent",
                                                     Trim(message), logOk)
              /\ http' = Response(200,
                   <<CollaboratorCall("append", normalizePhone(phone), Trim(message), logOk),
                     CollaboratorCall("send", TwilioTo(<<"+">> \o phone),
                                      Trim(message), sendOk)>>,
                   <<>>, request)

\* PATCH /leads/:phone/notes: the filter is the :phone of the route as it came
PatchNotesV0(phone, notes, ok) ==
  LET request == Request("PATCH /leads/:phone/notes", phone, "", notes)
  IN  /\ nMessages < MaxRequests
      /\ nMessages' = nMessages + 1
      /\ last' = [NoCall EXCEPT !.kind = "notes"]
      /\ UNCHANGED <<messages, turnsOk, calls, eval>>
      /\ IF NotesAreInvalid(notes)
         THEN /\ http' = Response(400, <<>>, <<>>, request)
              /\ UNCHANGED leads
         ELSE /\ leads' = PatchNotesInStore(leads, phone, notes, ok)
              /\ http' = Response(IF ok THEN 200 ELSE 500,
                   <<CollaboratorCall("patch", phone, notes, ok)>>,
                   <<>>, request)

NextV0 ==
  \/ \E name \in RequestNames, phone \in {ManualPhone, Undefined},
        saveOk \in BOOLEAN, logOk \in BOOLEAN :
       PostLeadV0(name, phone, saveOk, logOk)
  \/ \E phone \in AdminPhones, message \in ReplyMessages,
        logOk \in BOOLEAN, sendOk \in BOOLEAN :
       AgentReplyV0(phone, message, logOk, sendOk)
  \/ \E phone \in AdminPhones, notes \in NotesValues, ok \in BOOLEAN :
       PatchNotesV0(phone, notes, ok)
  \/ \E phone \in AdminPhones, ok \in BOOLEAN :
       ListMessagesV0(phone, ok)

SpecV0 == Init /\ [][NextV0]_vars

(***************************************************************************)
(* The scorer applied on its own to leads of every shape                   *)
(***************************************************************************)
V_Dallas   == <<"D","a","l","l","a","s">>
V_500k     == <<"5","0","0","k">>
V_not_sure_yet == <<"n","o","t"," ","s","u","r","e"," ","y","e","t">>
V_asap     == <<"a","s","a","p">>
V_ASAP     == <<"A","S","A","P">>
V_next_year == <<"n","e","x","t"," ","y","e","a","r">>
V_condo    == <<"c","o","n","d","o">>
V_2        == <<"2">>
V_cash     == <<"c","a","s","h">>
V_job      == <<"j","o","b">>
V_blank    == <<" "," ">>
V_empty    == <<>>

\* values each qualification field takes in the leads handed to the scorer
ScoreValues ==
  [location    |-> {Null, V_Dallas},
   budget      |-> {Null, V_empty, S_unknown, V_not_sure_yet, V_500k},
   timeline    |-> {Null, V_asap, V_ASAP, V_next_year},
   home_type   |-> {Null, V_condo},
   bedrooms    |-> {Null, V_2},
   preapproval |-> {Null, S_unknown, V_cash},
   motivation  |-> {Null, V_blank, V_job}]

\* the rest of a lead: a fresh one, one that completed the interview with a
\* score on record, one of another phone with its meeting scheduled
ScoreContexts ==
  {[phone |-> <<"1","5","5","5">>, current_question_index |-> 0,
    qualification_complete |-> FALSE, asked_for_meeting |-> FALSE,
    meeting_scheduled |-> FALSE, lead_score |-> "null"],
   [phone |-> <<"1","5","5","5">>, current_question_index |-> ScriptLength,
    qualification_complete |-> TRUE, asked_for_meeting |-> TRUE,
    meeting_scheduled |-> FALSE, lead_score |-> "hot"],
   [phone |-> <<"1","6","6","6">>, current_question_index |-> ScriptLength,
    qualification_complete |-> TRUE, asked_for_meeting |-> TRUE,
    meeting_scheduled |-> TRUE, lead_score |-> "cold"]}

\* a context with the seven fields
WithFields(context, fields) ==
  [k \in DOMAIN context \cup DOMAIN fields |->
     IF k \in DOMAIN fields THEN fields[k] ELSE context[k]]

ScoreLeads ==
  {WithFields(context, fields) :
     context \in ScoreContexts,
     fields \in [location    : ScoreValues.location,
                 budget      : ScoreValues.budget,
                 timeline    : ScoreValues.timeline,
                 home_type   : ScoreValues.home_type,
                 bedrooms    : ScoreValues.bedrooms,
                 preapproval : ScoreValues.preapproval,
                 motivation  : ScoreValues.motivation]}

InitScore ==
  /\ leads = [p \in {} |-> NewRow(p)]
  /\ last = NoCall
  /\ nMessages = 0
  /\ turnsOk = TRUE
  /\ calls = [c \in CallSlots |-> IdleCall]
  /\ messages = <<>>
  /\ http = NoRequest
  /\ eval \in {[fn |-> "input", arg |-> lead, result |-> <<>>] : lead \in ScoreLeads}

Score ==
  /\ eval.fn = "input"
  /\ eval' = [fn |-> "calculateLeadScore", arg |-> eval.arg,
              result |-> calculateLeadScore(eval.arg)]
  /\ UNCHANGED <<leads, last, nMessages, turnsOk, calls, messages, http>>

NextScore == Score

SpecScore == InitScore /\ [][NextScore]_vars

(***************************************************************************)
(* The classifiers, the phone normalizer and getNextStep applied on their  *)
(* own to inputs of every shape                                            *)
(***************************************************************************)
A_IDK          == <<"I","D","K">>
A_I_Dont_Know  == <<"I"," ","D","o","n","'","t"," ","K","n","o","w">>
A_dont_know    == <<"d","o","n","t"," ","k","n","o","w">>
A_Not_Certain  == <<" ","N","o","t"," ","C","e","r","t","a","i","n"," ","y","e","t"," ">>
A_Unknown      == <<" ","U","n","k","n","o","w","n">>
A_kidkraft     == <<"k","i","d","k","r","a","f","t">>
A_blank        == <<" "," ">>
A_no_thanks    == <<"n","o"," ","t","h","a","n","k","s",","," ","n","o","t"," ","n","o","w">>
A_yeah         == <<"y","e","a","h"," ","l","e","t","'","s"," ","d","o"," ","i","t">>
A_OK           == <<"O","K">>
A_alphabet     == <<"a","l","p","h","a","b","e","t">>
A_nope         == <<"n","o","p","e">>
A_Ready        == <<" ","R","e","a","d","y","!"," ">>
A_3_beds       == <<"3"," ","b","e","d","s"," ">>

\* texts a lead sends
FnTexts == {T_Phoenix, T_not_sure, T_ASAP, <<>>,
            A_IDK, A_I_Dont_Know, A_dont_know, A_Not_Certain,
            A_Unknown, A_kidkraft, A_blank, A_no_thanks,
            A_yeah, A_OK, A_alphabet, A_nope,
            A_Ready, A_3_beds}

P_digits       == <<"1","5","5","5">>
P_national     == <<"(","5","5","5",")"," ","0","1","0","-","9","9">>
P_letters      == <<"a","b","c">>

\* phone-like inputs: a webhook sender, a typed phone, a stored key, no phone
FnPhones == {FromAddress, ManualPhone, P_digits, P_national, P_letters,
             <<>>, Null, Undefined}

\* a lead that has been offered a meeting and has not answered yet
RowAwaitingResponse ==
  [RowAtLastQuestion EXCEPT
     !.current_question_index = ScriptLength,
     !.qualification_complete = TRUE,
     !.asked_for_meeting      = TRUE,
     !.motivation             = S_unknown,
     !.lead_score             = "cold"]

\* a lead whose interview is over and whose offer was not recorded
RowNeverAsked == [RowAwaitingResponse EXCEPT !.asked_for_meeting = FALSE]

\* the leads getNextStep is handed when applied on its own
FnLeads == {DefaultLeadState(normalizePhone(FromAddress)), RowAtLastQuestion,
            RowAwaitingResponse, RowNeverAsked}

FnInput(text) ==
  [fn |-> "input",
   arg |-> [text |-> text, index |-> 0,
            lead |-> DefaultLeadState(normalizePhone(FromAddress))],
   result |-> <<>>]

InitFn ==
  /\ leads = [p \in {} |-> NewRow(p)]
  /\ last = NoCall
  /\ nMessages = 0
  /\ turnsOk = TRUE
  /\ calls = [c \in CallSlots |-> IdleCall]
  /\ messages = <<>>
  /\ http = NoRequest
  /\ eval \in {FnInput(text) : text \in FnTexts \cup FnPhones}

\* updateLeadField(lead, index, text), text a string
ApplyUpdateLeadField(index) ==
  /\ eval.fn = "input"
  /\ eval.arg.text \in FnTexts
  /\ eval' = [fn |-> "updateLeadField",
              arg |-> [eval.arg EXCEPT !.index = index],
              result |-> updateLeadField(eval.arg.lead, index, eval.arg.text)]
  /\ UNCHANGED <<leads, last, nMessages, turnsOk, calls, messages, http>>

\* isPositiveResponse(text), text a string, null or undefined
ApplyIsPositiveResponse ==
  /\ eval.fn = "input"
  /\ eval.arg.text \in FnTexts \cup {Null, Undefined}
  /\ eval' = [fn |-> "isPositiveResponse", arg |-> eval.arg,
              result |-> isPositiveResponse(eval.arg.text)]
  /\ UNCHANGED <<leads, last, nMessages, turnsOk, calls, messages, http>>

\* normalizePhone(text)
ApplyNormalizePhone ==
  /\ eval.fn = "input"
  /\ eval' = [fn |-> "normalizePhone", arg |-> eval.arg,
              result |-> normalizePhone(eval.arg.text)]
  /\ UNCHANGED <<leads, last, nMessages, turnsOk, calls, messages, http>>

\* getNextStep(lead, text), text a string: the reply and the upserts issued
ApplyGetNextStep(lead) ==
  /\ eval.fn = "input"
  /\ eval.arg.text \in FnTexts
  /\ eval' = [fn |-> "getNextStep",
              arg |-> [eval.arg EXCEPT !.lead = lead],
              result |-> getNextStep(lead, eval.arg.text)]
  /\ UNCHANGED <<leads, last, nMessages, turnsOk, calls, messages, http>>

NextFn ==
  \/ \E index \in 0..ScriptLength : ApplyUpdateLeadField(index)
  \/ ApplyIsPositiveResponse
  \/ ApplyNormalizePhone
  \/ \E lead \in FnLeads : ApplyGetNextStep(lead)

SpecFn == InitFn /\ [][NextFn]_vars

(***************************************************************************)
(* The extraction variant (src/unnamed/part_000, lines 456-1296): the      *)
(* state read from the completion and the choice of the next field         *)
(***************************************************************************)
\* the content of a completion is a sequence of tokens: punctuation, a quoted
\* key, a string literal, the literal null, or a word outside any literal
Tok(k, name, v) == [k |-> k, name |-> name, v |-> v]

LBrace == Tok("{", "", <<>>)
RBrace == Tok("}", "", <<>>)
Colon  == Tok(":", "", <<>>)
Comma  == Tok(",", "", <<>>)
Fence  == Tok("text", "fence", <<>>)
NullLiteral == Tok("null", "", <<>>)

fieldsInOrder == <<"location", "budget", "timeline", "home_type", "bedrooms",
                   "preapproval", "motivation">>

AllNull == [f \in ScoreFields |-> Null]

\* JSON text of one member: "key": "value" or "key": null
Member(name, value) ==
  <<Tok("key", name, <<>>), Colon,
    IF value = Null THEN NullLiteral ELSE Tok("str", "", value)>>

RECURSIVE Members(_, _)
Members(state, names) ==
  IF names = <<>> THEN <<>>
  ELSE Member(Head(names), state[Head(names)])
       \o (IF Len(names) > 1 THEN <<Comma>> ELSE <<>>)
       \o Members(state, Tail(names))

\* the JSON text of a state, with the members of the given names
Stringify(state, names) == <<LBrace>> \o Members(state, names) \o <<RBrace>>

\* the fields of a state that are not null, in order
SetNames(state) == SelectSeq(fieldsInOrder, LAMBDA f : state[f] # Null)

\* what the completion collaborator answers for a state it has read from the
\* conversation: the object with every key, the object without the null
\* members, the object inside a code fence, the object cut short, the literal
\* null, a sentence, nothing
Shapes == {"full", "sparse", "fenced", "truncated"}

Completion(state, shape) ==
  IF shape = "full" THEN Stringify(state, fieldsInOrder)
  ELSE IF shape = "sparse" THEN Stringify(state, SetNames(state))
  ELSE IF shape = "fenced"
       THEN <<Fence>> \o Stringify(state, fieldsInOrder) \o <<Fence>>
  ELSE SubSeq(Stringify(state, fieldsInOrder), 1, 4 * Len(fieldsInOrder))

ExtractedValues ==
  [location    |-> {Null, V_Dallas},
   budget      |-> {Null, S_unknown, V_500k},
   timeline    |-> {Null, V_asap, V_empty},
   home_type   |-> {Null, V_condo},
   bedrooms    |-> {Null, V_2},
   preapproval |-> {Null, S_unknown},
   motivation  |-> {Null, V_job, V_empty}]

ExtractedStates ==
  [location    : ExtractedValues.location,
   budget      : ExtractedValues.budget,
   timeline    : ExtractedValues.timeline,
   home_type   : ExtractedValues.home_type,
   bedrooms    : ExtractedValues.bedrooms,
   preapproval : ExtractedValues.preapproval,
   motivation  : ExtractedValues.motivation]

Sentence == <<Tok("text", "Sorry,", <<>>), Tok("text", "I", <<>>), Tok("text", "cannot", <<>>)>>

\* completions with the state and the shape they were written from
Completions ==
  {[content |-> Completion(state, shape), shape |-> shape, state |-> state] :
     state \in ExtractedStates, shape \in Shapes}
  \cup {[content |-> <<NullLiteral>>, shape |-> "null", state |-> AllNull],
        [content |-> <<Tok("str", "", V_Dallas)>>, shape |-> "string", state |-> AllNull],
        [content |-> Sentence, shape |-> "sentence", state |-> AllNull],
        [content |-> <<>>, shape |-> "empty", state |-> AllNull]}

\* JSON.parse: the value read, or a SyntaxError
SyntaxError == [ok |-> FALSE, kind |-> "none", members |-> [n \in {} |-> Null]]

ParsedObject(members) == [ok |-> TRUE, kind |-> "object", members |-> members]

ParsedScalar(token) ==
  [ok |-> TRUE, kind |-> token.k, members |-> [n \in {} |-> Null]]

IsScalar(token) == token.k \in {"str", "null"}

RECURSIVE ParseMembers(_, _)
ParseMembers(tokens, members) ==
  IF /\ Len(tokens) >= 4
     /\ tokens[1].k = "key" /\ tokens[2] = Colon /\ IsScalar(tokens[3])
  THEN LET value == IF tokens[3].k = "null" THEN Null ELSE tokens[3].v
           read  == [n \in DOMAIN members \cup {tokens[1].name} |->
                       IF n = tokens[1].name THEN value ELSE members[n]]
       IN  IF tokens[4] = RBrace
           THEN IF Len(tokens) = 4 THEN ParsedObject(read) ELSE SyntaxError
           ELSE IF tokens[4] = Comma
           THEN ParseMembers(SubSeq(tokens, 5, Len(tokens)), read)
           ELSE SyntaxError
  ELSE SyntaxError

JSONparse(tokens) ==
  IF Len(tokens) = 1 /\ IsScalar(tokens[1]) THEN ParsedScalar(tokens[1])
  ELSE IF Len(tokens) >= 2 /\ tokens[1] = LBrace
  THEN IF tokens[2] = RBrace
       THEN IF Len(tokens) = 2 THEN ParsedObject([n \in {} |-> Null]) ELSE SyntaxError
       ELSE ParseMembers(Tail(tokens), [n \in {} |-> Null])
  ELSE SyntaxError

\* parsed.<field> ?? null
FieldOrNull(parsed, field) ==
  IF field \in DOMAIN parsed.members THEN parsed.members[field] ELSE Null

\* bug variant: the catch block throws the error on
extractLeadStateFromHistory_rethrow(content) ==
  LET parsed == JSONparse(content)
  IN  IF ~parsed.ok \/ parsed.kind = "null"
      THEN [threw |-> TRUE, state |-> AllNull]
      ELSE [threw |-> FALSE,
            state |-> [f \in ScoreFields |-> FieldOrNull(parsed, f)]]

\* extractLeadStateFromHistory from the content of the completion on: a
\* SyntaxError of JSON.parse and the TypeError of reading a field of null are
\* both caught and answered with the all-null state
extractLeadStateFromHistory(content) ==
  LET parsed == JSONparse(content)
  IN  IF ~parsed.ok \/ parsed.kind = "null"
      THEN [threw |-> FALSE, state |-> AllNull]
      ELSE [threw |-> FALSE,
            state |-> [f \in ScoreFields |-> FieldOrNull(parsed, f)]]

yesWords == {<<"y","e","s">>,
             <<"y","e","a","h">>,
             <<"y","e","p">>,
             <<"s","u","r","e">>,
             <<"o","k">>,
             <<"o","k","a","y">>,
             <<"s","o","u","n","d","s"," ","g","o","o","d">>,
             <<"b","e","t">>,
             <<"t","h","a","t"," ","w","o","r","k","s">>,
             <<"p","e","r","f","e","c","t">>,
             <<"g","r","e","a","t">>}

callWords == {<<"c","a","l","l">>,
              <<"p","h","o","n","e">>,
              <<"c","h","a","t">>,
              <<"t","a","l","k">>,
              <<"m","e","e","t","i","n","g">>,
              <<"s","c","h","e","d","u","l","e">>,
              <<"a","p","p","o","i","n","t","m","e","n","t">>}

schedulePhrases == {<<"s","c","h","e","d","u","l","e"," ","a"," ","c","a","l","l">>,
                    <<"s","e","t"," ","u","p"," ","a"," ","c","a","l","l">>,
                    <<"b","o","o","k"," ","a"," ","c","a","l","l">>,
                    <<"s","c","h","e","d","u","l","e"," ","s","o","m","e","t","h","i","n","g">>,
                    <<"t","h","a","t"," ","t","i","m","e"," ","w","o","r","k","s">>,
                    <<"l","e","t","s"," ","d","o"," ","i","t">>,
                    <<"l","e","t","'","s"," ","d","o"," ","i","t">>}

messageIndicatesWantsCall(msg) ==
  IF ~Truthy(msg) THEN FALSE
  ELSE LET text == ToLowerCase(msg)
       IN  \/ /\ \E w \in yesWords : Includes(text, w)
              /\ \E w \in callWords : Includes(text, w)
           \/ \E p \in schedulePhrases : Includes(text, p)

\* the fields generateLeadSummary puts into its sentence, in its order
generateLeadSummary(state) ==
  SelectSeq(<<"location", "home_type", "bedrooms", "budget", "timeline",
              "preapproval", "motivation">>,
            LAMBDA f : Truthy(state[f]) /\ state[f] # S_unknown)

IsMissing(value) == value = Null \/ value = <<>> \/ value = Undefined

\* generateSmartReply from the extracted state on: what it answers with (the
\* booking link, or a completion under the summary instruction or under the
\* instruction to ask about one field), the field named, the state it used
generateSmartReply(extracted, latestUserMessage) ==
  LET raw   == Trim(IF Truthy(latestUserMessage) THEN latestUserMessage ELSE <<>>)
      lower == ToLowerCase(raw)
      looksUnknown ==
        \/ lower = S_idk
        \/ Includes(lower, <<"i"," ","d","o","n","'","t"," ","k","n","o","w">>)
        \/ Includes(lower, <<"d","o","n","t"," ","k","n","o","w">>)
        \/ Includes(lower, S_not_sure)
        \/ Includes(lower, <<"n","o"," ","i","d","e","a">>)
        \/ lower = <<"n","o","n","e">>
      state == IF IsMissing(extracted.motivation) /\ raw # <<>> /\ ~looksUnknown
               THEN [extracted EXCEPT !.motivation = raw]
               ELSE extracted
      missing == SelectSeq(fieldsInOrder, LAMBDA f : IsMissing(state[f]))
  IN  IF messageIndicatesWantsCall(latestUserMessage)
      THEN [kind |-> "booking", field |-> "none", state |-> state,
            summary |-> <<>>]
      ELSE IF missing = <<>>
      THEN [kind |-> "summary", field |-> "none", state |-> state,
            summary |-> generateLeadSummary(state)]
      ELSE [kind |-> "ask", field |-> Head(missing), state |-> state,
            summary |-> <<>>]

L_ok_call_me == <<"o","k"," ","c","a","l","l"," ","m","e">>

\* the latest message of the lead
LatestMessages == {T_Phoenix, T_not_sure, A_yeah, L_ok_call_me, <<>>}

InitExtract ==
  /\ leads = [p \in {} |-> NewRow(p)]
  /\ last = NoCall
  /\ nMessages = 0
  /\ turnsOk = TRUE
  /\ calls = [c \in CallSlots |-> IdleCall]
  /\ messages = <<>>
  /\ http = NoRequest
  /\ eval \in {[fn |-> "input", arg |-> completion, result |-> <<>>] :
                 completion \in Completions}

Extract ==
  /\ eval.fn = "input"
  /\ eval' = [fn |-> "extractLeadStateFromHistory", arg |-> eval.arg,
              result |-> extractLeadStateFromHistory(eval.arg.content)]
  /\ UNCHANGED <<leads, last, nMessages, turnsOk, calls, messages, http>>

SmartReply(latestUserMessage) ==
  /\ eval.fn = "extractLeadStateFromHistory"
  /\ ~eval.result.threw
  /\ eval' = [fn |-> "generateSmartReply",
              arg |-> [extracted |-> eval.result.state, latest |-> latestUserMessage],
              result |-> generateSmartReply(eval.result.state, latestUserMessage)]
  /\ UNCHANGED <<leads, last, nMessages, turnsOk, calls, messages, http>>

NextExtract ==
  \/ Extract
  \/ \E latestUserMessage \in LatestMessages : SmartReply(latestUserMessage)

SpecExtract == InitExtract /\ [][NextExtract]_vars

(***************************************************************************)
(* The webhook of the extraction variant (src/unnamed/part_000, lines      *)
(* 1104-1175), from the request to the response                            *)
(***************************************************************************)
\* webhook requests explored per behaviour
MaxSmartRequests == 1

\* the Body of the request: an answer, an affirmation alone, two messages
\* that ask for a call, none
SmartBodies == {T_Phoenix, A_OK, L_ok_call_me, A_yeah, Undefined}

\* a state with every field known, and one with three of them
StateComplete ==
  [location |-> V_Dallas, budget |-> V_500k, timeline |-> V_asap,
   home_type |-> V_condo, bedrooms |-> V_2, preapproval |-> V_cash,
   motivation |-> V_job]

StatePartial ==
  [AllNull EXCEPT !.location = V_Dallas, !.budget = S_unknown, !.timeline = V_asap]

\* what the extraction reads from the history: nothing, some fields, all
SmartStates == {AllNull, StatePartial, StateComplete}

\* the message returned when the lead asks for a call: the fixed sentence
\* followed by BOOKING_LINK
BookingReply ==
  <<"Okay sounds good! Click this link to schedule the appointment: ", "BOOKING_LINK">>

\* the text handed back by generateSmartReply: the booking message, or the
\* content of the chat completion written under the instruction of that kind
ReplyText(reply) ==
  IF reply.kind = "booking" THEN BookingReply
  ELSE <<"completion", reply.kind, reply.field>>

countKnownFields(state) ==
  Cardinality({k \in ScoreFields :
                 /\ state[k] # Null /\ state[k] # Undefined
                 /\ Trim(state[k]) # <<>>
                 /\ state[k] # S_unknown})

\* updateLeadFromState: the upsert of the fields that have a value, merged
\* into the row of the normalized phone; a failed request is swallowed
updateLeadFromState(table, phone, state, score, ok) ==
  LET norm == StripNonDigits(phone)
      set  == {f \in ScoreFields : Truthy(state[f])}
                \cup (IF score # "null" THEN {"lead_score"} ELSE {})
      row  == [k \in set \cup {"phone"} |->
                 IF k = "phone" THEN norm
                 ELSE IF k = "lead_score" THEN score ELSE state[k]]
  IN  IF ~ok THEN table
      ELSE [p \in DOMAIN table \cup {norm} |->
              IF p = norm
              THEN MergeRow(IF p \in DOMAIN table THEN table[p] ELSE NewRow(p), row)
              ELSE table[p]]

\* bug variant: the patch is made once every field is known
WantsMeetingPatch_whenComplete(body, state) == countKnownFields(state) = 7

\* step 5 of the handler: whether the lead is patched as wanting a meeting
WantsMeetingPatch(body, state) == messageIndicatesWantsCall(body)

\* PATCH /rest/v1/leads?phone=eq.<leadPhone> with wants_meeting and
\* meeting_notes: the row of that key takes them; a failed request is swallowed
PatchWantsMeeting(table, key, body, ok) ==
  IF ok /\ key \in DOMAIN table
  THEN [table EXCEPT ![key].wants_meeting = "true", ![key].meeting_notes = body]
  ELSE table

\* what the scoring completion is read as, or that the request for it threw
ScoreOutcomes == {"hot", "warm", "throw"}

\* the functions of the handler on the inputs explored, evaluated once
SmartReplies ==
  [state \in SmartStates, body \in SmartBodies |-> generateSmartReply(state, body)]

KnownCounts == [state \in SmartStates |-> countKnownFields(state)]

PatchesMade ==
  [body \in SmartBodies, state \in SmartStates |-> WantsMeetingPatch(body, state)]

\* POST /whatsapp-webhook of the extraction variant.  The two extractions
\* answer with a state each; the chat completion and the scoring completion
\* may throw, which ends the request with 500; the store requests and the
\* delivery are swallowed when they fail.
SmartWebhook(from, body, state1, state2, chatOk, score, logLeadOk, logAiOk, upsertOk, patchOk, sendOk) ==
  LET request    == Request("POST /whatsapp-webhook", from, "", body)
      leadPhone  == StripNonDigits(from)
      reply      == SmartReplies[state1, body]
      aiReply    == ReplyText(reply)
      chatThrew  == reply.kind # "booking" /\ ~chatOk
      scored     == KnownCounts[state2] = 7
      scoreThrew == scored /\ score = "throw"
      leadScore  == IF scored THEN score ELSE "null"
      patched    == PatchesMade[body, state2]
      log1       == saveMessageToSupabaseV0(messages, leadPhone, "lead", body, logLeadOk)
      log2       == saveMessageToSupabaseV0(log1, leadPhone, "ai", aiReply, logAiOk)
      upserted   == updateLeadFromState(leads, leadPhone, state2, leadScore, upsertOk)
      c1 == <<CollaboratorCall("append", leadPhone, body, logLeadOk)>>
      c2 == <<CollaboratorCall("append", leadPhone, aiReply, logAiOk)>>
      c3 == <<CollaboratorCall("upsert", leadPhone, <<>>, upsertOk)>>
      c4 == IF patched
            THEN <<CollaboratorCall("patch", leadPhone, body, patchOk)>>
            ELSE <<>>
      c5 == <<CollaboratorCall("send", from, aiReply, sendOk)>>
  IN  /\ nMessages < MaxSmartRequests
      /\ nMessages' = nMessages + 1
      /\ UNCHANGED <<turnsOk, calls, eval>>
      /\ last' = [NoCall EXCEPT !.kind = "smart", !.text = body,
                                !.reply = IF chatThrew THEN NoCall.reply
                                          ELSE [type |-> reply.kind, message |-> aiReply]]
      /\ IF chatThrew
         THEN /\ messages' = log1
              /\ leads' = leads
              /\ http' = Response(500, c1, <<>>, request)
         ELSE IF scoreThrew
         THEN /\ messages' = log2
              /\ leads' = leads
              /\ http' = Response(500, c1 \o c2, <<>>, request)
         ELSE /\ messages' = log2
              /\ leads' = IF patched
                          THEN PatchWantsMeeting(upserted, leadPhone, body, patchOk)
                          ELSE upserted
              /\ http' = Response(200, c1 \o c2 \o c3 \o c4 \o c5, <<>>, request)

\* a completion is asked for only where the handler gets to it, and a patch
\* has an outcome only when it is made
NextSmart ==
  \E body \in SmartBodies, state1 \in SmartStates, state2 \in SmartStates :
    \E chatOk \in (IF SmartReplies[state1, body].kind = "booking" THEN {TRUE} ELSE BOOLEAN),
       score \in (IF KnownCounts[state2] = 7 THEN ScoreOutcomes ELSE {"null"}),
       patchOk \in (IF PatchesMade[body, state2] THEN BOOLEAN ELSE {TRUE}),
       logLeadOk \in BOOLEAN, logAiOk \in BOOLEAN, upsertOk \in BOOLEAN,
       sendOk \in BOOLEAN :
         SmartWebhook(FromAddress, body, state1, state2, chatOk, score,
                      logLeadOk, logAiOk, upsertOk, patchOk, sendOk)

SpecSmart == Init /\ [][NextSmart]_vars

(***************************************************************************)
(* Shorthands for the properties                                           *)
(***************************************************************************)
LeadKey == normalizePhone(FromAddress)

OnRecord == LeadKey \in DOMAIN leads

Stored == IF OnRecord THEN leads[LeadKey] ELSE NewRow(LeadKey)

TypeOK ==
  /\ DOMAIN leads \subseteq {LeadKey}
  /\ nMessages \in 0..(MaxMessages + MaxRaceMessages)
  /\ turnsOk \in BOOLEAN
  /\ Stored.current_question_index \in 0..ScriptLength

(***************************************************************************)
(* Properties                                                              *)
(***************************************************************************)
\* what each Body value is to be stored as when it answers a question
ExpectedAnswer ==
  (T_not_sure :> S_unknown) @@ (T_ASAP :> <<"A","S","A","P">>)
    @@ (T_Phoenix :> T_Phoenix)

FieldAt(i) == QUALIFICATION_QUESTIONS[i + 1].field

Min(a, b) == IF a < b THEN a ELSE b

\* a step of Spec that is one whole webhook call
WebhookStep == last'.kind = "webhook" /\ nMessages' = nMessages + 1

C2_IndexIsMinOfMessages ==
  /\ Stored.current_question_index \in 0..ScriptLength
  /\ turnsOk => Stored.current_question_index = Min(nMessages, ScriptLength)

\* C3: In every stored lead, qualification_complete is true exactly when
\* current_question_index equals the script length.
C3_CompleteIffScriptEnd ==
  OnRecord =>
    (Stored.qualification_complete <=> Stored.current_question_index = ScriptLength)

C3_Witness ==
  /\ OnRecord /\ Stored.name = "Ana"
  /\ Stored.qualification_complete
  /\ Stored.current_question_index = ScriptLength

\* C4: With webhook calls processed one after the other, every interview turn (a
\* message handled while the stored index is below 7 and meeting_scheduled is
\* false) raises the stored current_question_index by exactly 1, and no
\* operation lowers it.
C4_IndexStepsByOne ==
  [][ /\ Stored'.current_question_index >= Stored.current_question_index
      /\ (WebhookStep /\ ~Stored.meeting_scheduled
            /\ Stored.current_question_index < ScriptLength)
         => Stored'.current_question_index = Stored.current_question_index + 1 ]_vars

\* C5: getNextStep tests terminal, then interview, then scheduling response.
\* When a call acts on its lead snapshot: if the snapshot has meeting_scheduled
\* true, the text is written nowhere (the table is untouched, the reply is the
\* acknowledgement) even when the snapshot's index is below 7; if it has
\* meeting_scheduled false and an index below 7, the text is taken as the
\* answer to that question (a question or scheduling-offer turn, never one
\* that schedules the meeting) even when asked_for_meeting is true.
C5_BranchPriority ==
  [][ \A c \in CallSlots :
        (calls[c].pc = "read" /\ calls'[c].pc # "read")
        => LET lead == calls[c].lead
           IN  /\ lead.meeting_scheduled
                  => /\ leads' = leads
                     /\ last'.lead = lead
                     /\ last'.reply = AlreadyHandledReply
               /\ (~lead.meeting_scheduled /\ lead.current_question_index < ScriptLength)
                  => /\ \/ calls'[c].pc = "offer"
                        \/ last'.lead = lead /\ last'.reply.type = "question"
                     /\ Stored'.meeting_scheduled => Stored.meeting_scheduled
                     /\ leads' # leads
                        => Stored'[FieldAt(lead.current_question_index)]
                             = ExpectedAnswer[calls[c].text] ]_vars

C5_Witness ==
  /\ last.kind = "webhook"
  /\ last.lead.meeting_scheduled
  /\ last.lead.current_question_index < ScriptLength
  /\ last.reply.type = "already_handled"
  /\ OnRecord /\ Stored.meeting_scheduled
  /\ Stored.current_question_index < ScriptLength

\* C6: asked_for_meeting changes from false to true exactly once (so it never
\* goes back to false), in the webhook call whose interview turn brings the
\* stored index from 6 to 7; so asked_for_meeting implies
\* qualification_complete in every state.
C6_AskedOnceAtCompletion ==
  [][ /\ Stored'.asked_for_meeting => Stored'.qualification_complete
      /\ Stored.asked_for_meeting => Stored'.asked_for_meeting
      /\ (~Stored.asked_for_meeting /\ Stored'.asked_for_meeting)
         => /\ WebhookStep
            /\ Stored.current_question_index = ScriptLength - 1
            /\ Stored'.current_question_index = ScriptLength ]_vars

\* C7: meeting_scheduled changes from false to true exactly once (so it never
\* goes back to false), and the first message processed while asked_for_meeting
\* is true and meeting_scheduled is false sets it, affirmative or not.
C7_ScheduledOnceOnFirstResponse ==
  [][ /\ Stored.meeting_scheduled => Stored'.meeting_scheduled
      /\ (WebhookStep /\ Stored.asked_for_meeting /\ ~Stored.meeting_scheduled)
         => Stored'.meeting_scheduled ]_vars

C9_ReplyAfterInterviewTurn ==
  [][ (WebhookStep /\ Stored'.current_question_index = Stored.current_question_index + 1)
      => IF Stored'.current_question_index < ScriptLength
         THEN /\ last'.reply.type = "question"
              /\ last'.reply.message =
                   <<QUALIFICATION_QUESTIONS[Stored'.current_question_index + 1].question>>
         ELSE /\ last'.reply.type = "scheduling"
              /\ Stored'.lead_score \in {"hot", "warm", "cold"}
              /\ \E j \in 1..Len(last'.reply.message) :
                   last'.reply.message[j] = Stored'.lead_score ]_vars

C9_Witness ==
  /\ last.kind = "webhook" /\ last.reply.type = "scheduling"
  /\ last.lead.current_question_index = ScriptLength - 1
  /\ Stored.current_question_index = ScriptLength
  /\ Stored.lead_score = "hot"
  /\ last.reply.message[3] = "hot"

\* C10: The final interview turn (stored index 6 -> 7) leaves the stored lead
\* with qualification_complete = true, asked_for_meeting = true, the classified
\* final answer in motivation and lead_score = calculateLeadScore of the seven
\* fields as they are then stored; an interview turn that ends below index 7
\* does not change lead_score.
C10_FinalTurnCompletes ==
  [][ WebhookStep
      => /\ (Stored.current_question_index = ScriptLength - 1
               /\ Stored'.current_question_index = ScriptLength)
            => /\ Stored'.qualification_complete
               /\ Stored'.asked_for_meeting
               /\ Stored'.motivation = ExpectedAnswer[last'.text]
               /\ Stored'.lead_score = calculateLeadScore(Stored')
         /\ (last'.reply.type = "question")
            => Stored'.lead_score = Stored.lead_score ]_vars

\* whether each Body value is to be taken as a yes to the scheduling offer
ExpectedPositive ==
  (T_not_sure :> TRUE) @@ (T_ASAP :> FALSE) @@ (T_Phoenix :> FALSE)

C12_FallbackUnreachable ==
  last.kind = "webhook"
  => /\ last.reply.type # "fallback"
     /\ ~ (/\ last.lead.current_question_index = ScriptLength
           /\ ~last.lead.asked_for_meeting
           /\ ~last.lead.meeting_scheduled)

\* a step that is one whole webhook request
RequestStep == nMessages' = nMessages + 1 /\ http'.status # 0

\* C13: Every webhook request is answered with status 200, whatever fails
\* inside it: a missing Body, a store call, the delivery.
C13_AlwaysAcknowledged == http # NoRequest => http.status = 200

\* C14: A webhook request in which a lead upsert fails still runs to its end:
\* the upsert raises nothing, the reply is computed, its append to the message
\* log and its delivery are attempted after the upsert(s), in that order, and
\* the request is answered with 200.
C14_FailedUpsertGoesOn ==
  [][ (RequestStep /\ \E i \in 1..Len(http'.calls) :
                        http'.calls[i].op = "upsert" /\ ~http'.calls[i].ok)
      => LET n == Len(http'.calls)
         IN  /\ http'.status = 200
             /\ last'.reply = getNextStep(last'.lead, last'.text).reply
             /\ Len(last'.oks) = Len(getNextStep(last'.lead, last'.text).upserts)
             /\ http'.calls[n - 1].op = "append"
             /\ http'.calls[n - 1].text = last'.reply.message
             /\ http'.calls[n - 1].ok
                => /\ messages' # <<>>
                   /\ messages'[Len(messages')] =
                        [lead_phone |-> LeadKey, sender |-> "ai",
                         message |-> last'.reply.message]
             /\ http'.calls[n].op = "send"
             /\ http'.calls[n].text = last'.reply.message ]_vars

C14_Witness ==
  /\ http.status = 200
  /\ Len(http.calls) = 6
  /\ http.calls[3].op = "upsert" /\ ~http.calls[3].ok
  /\ http.calls[4].op = "upsert" /\ http.calls[4].ok
  /\ http.calls[6].op = "send" /\ http.calls[6].ok
  /\ last.reply.type = "scheduling"
  /\ messages # <<>> /\ messages[Len(messages)].sender = "ai"

\* C15: A webhook request whose delivery fails is answered with 200; the
\* delivery is the last call of the request, made after the lead upsert(s) and
\* both appends to the message log, and what those stored stays stored.
C15_FailedDeliveryGoesOn ==
  [][ (RequestStep /\ \E i \in 1..Len(http'.calls) :
                        http'.calls[i].op = "send" /\ ~http'.calls[i].ok)
      => LET n    == Len(http'.calls)
             step == getNextStep(last'.lead, last'.text)
             ops  == [i \in 1..n |-> http'.calls[i].op]
             log1 == IF http'.calls[1].ok
                     THEN Append(messages, [lead_phone |-> LeadKey, sender |-> "lead",
                                            message |-> http'.calls[1].text])
                     ELSE messages
             log2 == IF http'.calls[n - 1].ok
                     THEN Append(log1, [lead_phone |-> LeadKey, sender |-> "ai",
                                        message |-> last'.reply.message])
                     ELSE log1
         IN  /\ http'.status = 200
             /\ ops = <<"append", "get">>
                      \o [i \in 1..Len(step.upserts) |-> "upsert"]
                      \o <<"append", "send">>
             /\ leads' = ApplyUpserts(leads, LeadKey, step.upserts, last'.oks)
             /\ messages' = log2 ]_vars

C15_Witness ==
  /\ http.status = 200
  /\ Len(http.calls) = 5
  /\ http.calls[3].op = "upsert" /\ http.calls[3].ok
  /\ http.calls[5].op = "send" /\ ~http.calls[5].ok
  /\ http.calls[1].ok /\ http.calls[4].ok
  /\ Len(messages) >= 2
  /\ messages[Len(messages)].sender = "ai"
  /\ OnRecord /\ Stored.meeting_scheduled

\* C16: Webhook calls for one phone are not serialized.  A call reads the row
\* as it is stored at that moment, whatever other calls are in flight, and its
\* interview upsert, when it succeeds, stores its own answer and its own
\* snapshot's index + 1 whatever the row holds by then: so two calls that read
\* the same snapshot leave the index advanced by 1 and one answer overwritten.
C16_LostUpdate ==
  [][ \A c \in CallSlots :
        /\ (calls[c].pc = "idle" /\ calls'[c].pc = "read")
           => calls'[c].lead = getCurrentLeadState(leads, FromAddress, calls'[c].readOk)
        /\ (/\ calls[c].pc = "read" /\ calls'[c].pc # "read"
            /\ ~calls[c].lead.meeting_scheduled
            /\ calls[c].lead.current_question_index < ScriptLength
            /\ IF calls'[c].pc = "offer" THEN calls'[c].oks[1] ELSE last'.oks[1])
           => /\ Stored'.current_question_index
                   = calls[c].lead.current_question_index + 1
              /\ Stored'[FieldAt(calls[c].lead.current_question_index)]
                   = ExpectedAnswer[calls[c].text] ]_vars

\* two messages answered, both upserts succeeded, index 1, the second answer
\* replaced by the first
C16_Witness ==
  /\ nMessages = 2
  /\ \A c \in CallSlots : calls[c].pc = "idle"
  /\ turnsOk
  /\ last.kind = "webhook" /\ last.oks = <<TRUE>> /\ last.readOk
  /\ last.text = T_Phoenix
  /\ last.lead.current_question_index = 0
  /\ OnRecord
  /\ Stored.current_question_index = 1
  /\ Stored.location = T_Phoenix

\* C17: Every lead upsert of a webhook call is posted with merge-on-conflict
\* semantics on the normalized phone: its conflict target is phone, its row
\* carries the normalized phone, its headers ask the store to merge duplicates,
\* and when it is the only upsert of the call and succeeds, the columns it does
\* not carry keep their stored values.
C17_UpsertsMerge ==
  [][ WebhookStep
      => LET upserts == getNextStep(last'.lead, last'.text).upserts
         IN  \A i \in 1..Len(last'.oks) :
               LET request == UpsertRequest(last'.lead.phone, upserts[i])
               IN  /\ request.on_conflict = "phone"
                   /\ request.data.phone = LeadKey
                   /\ MergesOnConflict(request)
                   /\ (Len(last'.oks) = 1 /\ last'.oks[1])
                      => \A k \in (DOMAIN Stored) \ (DOMAIN request.data) :
                           Stored'[k] = Stored[k] ]_vars

\* the scorer has been applied
Scored == eval.fn = "calculateLeadScore"

\* the values that count as an answer, those that make a timeline urgent and
\* those that make a budget strong
RealValues == {V_Dallas, V_500k, V_not_sure_yet, V_asap, V_ASAP, V_next_year,
               V_condo, V_2, V_cash, V_job}

ExpectedFilledCount(lead) == Cardinality({f \in ScoreFields : lead[f] \in RealValues})

ExpectedUrgent(lead) == lead.timeline \in {V_asap, V_ASAP}

ExpectedStrongBudget(lead) == lead.budget = V_500k

\* C18: calculateLeadScore returns hot iff filledCount >= 5, the timeline is
\* urgent and the budget is strong; otherwise warm iff filledCount >= 4;
\* otherwise cold.  The result is one of the three tiers.
C18_DecisionTable ==
  Scored
  => /\ eval.result \in {"hot", "warm", "cold"}
     /\ eval.result =
          (IF /\ ExpectedFilledCount(eval.arg) >= 5
              /\ ExpectedUrgent(eval.arg)
              /\ ExpectedStrongBudget(eval.arg) THEN "hot"
           ELSE IF ExpectedFilledCount(eval.arg) >= 4 THEN "warm"
           ELSE "cold")

\* seven fields filled, strong budget, no urgency: warm
C18_Witness ==
  /\ Scored
  /\ ExpectedFilledCount(eval.arg) = 7
  /\ eval.arg.budget = V_500k
  /\ eval.arg.timeline = V_next_year
  /\ eval.result = "warm"

\* C19: A lead whose budget is "unknown" or unset is never scored hot; with
\* the six other fields filled and an urgent timeline it is scored warm.
C19_UnknownBudgetNeverHot ==
  (Scored /\ eval.arg.budget \in {S_unknown, Null, V_empty})
  => /\ eval.result # "hot"
     /\ (ExpectedFilledCount(eval.arg) = 6 /\ ExpectedUrgent(eval.arg))
        => eval.result = "warm"

\* Dallas, unknown, asap, condo, 2, cash, job
C19_Witness ==
  /\ Scored
  /\ eval.arg.location = V_Dallas /\ eval.arg.budget = S_unknown
  /\ eval.arg.timeline = V_asap /\ eval.arg.home_type = V_condo
  /\ eval.arg.bedrooms = V_2 /\ eval.arg.preapproval = V_cash
  /\ eval.arg.motivation = V_job
  /\ eval.result = "warm"

\* C20: The tier depends on the seven qualification fields only: it is the
\* tier of the lead with the same seven fields and a fresh lead's phone, index,
\* flags and lead_score.  Replacing an unset or "unknown" field by a real value
\* never lowers filledCount.
C20_ScoreDependsOnFieldsOnly ==
  Scored
  => /\ \A context \in ScoreContexts :
          eval.result =
            calculateLeadScore(WithFields(context, [f \in ScoreFields |-> eval.arg[f]]))
     /\ \A f \in ScoreFields, v \in RealValues :
          eval.arg[f] \in {Null, V_empty, S_unknown}
          => filledCount([eval.arg EXCEPT ![f] = v]) >= filledCount(eval.arg)

\* a score on record plays no part in the tier
C20_Witness ==
  /\ Scored
  /\ eval.arg.lead_score = "hot"
  /\ eval.arg.current_question_index = ScriptLength
  /\ eval.result = "cold"

\* each text as it reads without the white space around it
TrimmedText ==
  (T_Phoenix :> <<"P","h","o","e","n","i","x">>)
    @@ (T_not_sure :> <<"n","o","t"," ","s","u","r","e">>)
    @@ (T_ASAP :> <<"A","S","A","P">>)
    @@ (<<>> :> <<>>)
    @@ (A_IDK :> <<"I","D","K">>)
    @@ (A_I_Dont_Know :> <<"I"," ","D","o","n","'","t"," ","K","n","o","w">>)
    @@ (A_dont_know :> <<"d","o","n","t"," ","k","n","o","w">>)
    @@ (A_Not_Certain :> <<"N","o","t"," ","C","e","r","t","a","i","n"," ","y","e","t">>)
    @@ (A_Unknown :> <<"U","n","k","n","o","w","n">>)
    @@ (A_kidkraft :> <<"k","i","d","k","r","a","f","t">>)
    @@ (A_blank :> <<>>)
    @@ (A_no_thanks :> <<"n","o"," ","t","h","a","n","k","s",","," ","n","o","t"," ","n","o","w">>)
    @@ (A_yeah :> <<"y","e","a","h"," ","l","e","t","'","s"," ","d","o"," ","i","t">>)
    @@ (A_OK :> <<"O","K">>)
    @@ (A_alphabet :> <<"a","l","p","h","a","b","e","t">>)
    @@ (A_nope :> <<"n","o","p","e">>)
    @@ (A_Ready :> <<"R","e","a","d","y","!">>)
    @@ (A_3_beds :> <<"3"," ","b","e","d","s">>)

\* the texts that hold a phrase of the "I don't know" lexicon, "dont know"
\* being a variant spelling of "don't know"
LexiconTexts == {T_not_sure, A_IDK, A_I_Dont_Know, A_dont_know, A_Not_Certain,
                 A_Unknown, A_kidkraft}

\* C21: updateLeadField stores "unknown" in the field of the question iff the
\* trimmed answer contains, whatever its case, one of "not sure", "don't know"
\* or a variant spelling of it ("dont know"), "unknown", "idk", "not certain";
\* otherwise it stores the trimmed text.
C21_UnknownLexicon ==
  (eval.fn = "updateLeadField" /\ eval.arg.index < ScriptLength)
  => eval.result[FieldAt(eval.arg.index)] =
       (IF eval.arg.text \in LexiconTexts THEN S_unknown
        ELSE TrimmedText[eval.arg.text])

\* the texts that hold a word of the affirmative lexicon
AffirmativeTexts == {T_not_sure, A_yeah, A_OK, A_alphabet, A_Ready}

\* C22: isPositiveResponse returns true iff the lower-cased text contains a
\* word of the affirmative lexicon, and false for empty, null or undefined
\* input.  For "no thanks, not now" it returns false: getNextStep handed that
\* text and a lead awaiting the scheduling response replies with the decline
\* acknowledgement and issues one upsert with wants_meeting = false.
C22_PositiveIffLexicon ==
  /\ eval.fn = "isPositiveResponse"
     => /\ eval.result = (eval.arg.text \in AffirmativeTexts)
        /\ eval.arg.text \in {<<>>, Null, Undefined, A_no_thanks} => eval.result = FALSE
  /\ (eval.fn = "getNextStep" /\ eval.arg.lead = RowAwaitingResponse)
     => IF eval.arg.text \in AffirmativeTexts
        THEN /\ eval.result.reply = MeetingConfirmedReply
             /\ eval.result.upserts = <<[meeting_scheduled |-> TRUE,
                                         wants_meeting     |-> "true",
                                         meeting_notes     |-> eval.arg.text]>>
        ELSE /\ eval.result.reply = MeetingDeclinedReply
             /\ eval.result.upserts = <<[meeting_scheduled |-> TRUE,
                                         wants_meeting     |-> "false"]>>

C22_Witness ==
  /\ eval.fn = "getNextStep"
  /\ eval.arg.lead = RowAwaitingResponse
  /\ eval.arg.text = A_no_thanks
  /\ eval.result.reply.type = "meeting_declined"
  /\ Len(eval.result.upserts) = 1
  /\ eval.result.upserts[1].wants_meeting = "false"

\* C23: A qualification field is never asked again: over the webhook calls of
\* one lead each script prompt is sent as a reply at most once, whatever the
\* answer was stored as ("unknown" included); so no webhook call replies with
\* the prompt the call before it replied with.
C23_NeverReasked ==
  [][ (WebhookStep /\ last.kind = "webhook" /\ last'.reply.type = "question")
      => last'.reply.message # last.reply.message ]_vars

\* C24: A validation failure on an administrative endpoint is answered with
\* 400 and has no side effect: POST /lead without name or phone, an agent
\* reply whose message is absent, empty or white space, a notes patch whose
\* notes are not a string call no collaborator and leave the leads and the
\* messages as they were; and only those requests are answered with 400.
C24_ValidationFailure ==
  [][ RequestStep
      => LET r == http'.request
             invalid ==
               \/ /\ r.endpoint = "POST /lead"
                  /\ r.name = "" \/ r.phone \in {Undefined, Null, <<>>}
               \/ /\ r.endpoint = "POST /leads/:phone/reply"
                  /\ r.text \in {Undefined, <<>>, M_blank}
               \/ /\ r.endpoint = "PATCH /leads/:phone/notes"
                  /\ r.text \in {Undefined, Null}
         IN  /\ invalid => /\ http'.status = 400
                           /\ http'.calls = <<>>
                           /\ leads' = leads
                           /\ messages' = messages
             /\ http'.status = 400 => invalid ]_vars

\* a reply of white space to a lead on record, refused
C24_Witness ==
  /\ http.status = 400
  /\ http.request.endpoint = "POST /leads/:phone/reply"
  /\ http.request.text = M_blank
  /\ http.calls = <<>>
  /\ OnRecord
  /\ Len(messages) = 1

\* s is the beginning of t
IsPrefix(s, t) == Len(s) <= Len(t) /\ SubSeq(t, 1, Len(s)) = s

DigitsOf ==
  (FromAddress :> P_digits) @@ (ManualPhone :> P_digits) @@ (P_digits :> P_digits)
    @@ (P_national :> <<"5","5","5","0","1","0","9","9">>)
    @@ (A_3_beds :> <<"3">>)

\* C26: normalizePhone returns exactly the digits of its input in their
\* order, the empty string for null, undefined or empty input (and for a text
\* without digits), and normalizing its result again returns the result.
C26_NormalizePhone ==
  eval.fn = "normalizePhone"
  => /\ eval.result = (IF eval.arg.text \in DOMAIN DigitsOf
                       THEN DigitsOf[eval.arg.text] ELSE <<>>)
     /\ \A i \in 1..Len(eval.result) : eval.result[i] \in Digits
     /\ normalizePhone(eval.result) = eval.result

C26_Witness ==
  /\ eval.fn = "normalizePhone"
  /\ eval.arg.text = FromAddress
  /\ eval.result = <<"1","5","5","5">>

\* the calls that go to the record store
StoreOps == {"append", "get", "upsert", "patch", "list"}

\* C27: Every store access that takes a phone-like input (webhook sender,
\* POST /lead, agent reply, notes patch, message listing) uses the normalized
\* key: whichever way the one number is spelled ('whatsapp:+1555', '+1 555',
\* '1555'), every store call is made on the key 1555, the lead and all its
\* messages are stored under it, and a listing returns all of them.
C27_OneKeyPerNumber ==
  /\ \A i \in 1..Len(http.calls) :
       http.calls[i].op \in StoreOps => http.calls[i].key = LeadKey
  /\ DOMAIN leads \subseteq {LeadKey}
  /\ \A i \in 1..Len(messages) : messages[i].lead_phone = LeadKey
  /\ (http.request.endpoint = "GET /leads/:phone/messages" /\ http.status = 200)
     => http.body = messages

\* C28: In the extraction variant, when the content of the completion does
\* not parse as JSON (an object inside a code fence, an object cut short, a
\* sentence, nothing) extractLeadStateFromHistory returns the state with all
\* seven fields null and throws nothing; so it does for the literal null and
\* for a string.  When the content is an object, each field has the value of
\* its member, and null when the member is null or missing.
C28_ParseFailureFallsBack ==
  eval.fn = "extractLeadStateFromHistory"
  => /\ ~eval.result.threw
     /\ DOMAIN eval.result.state = ScoreFields
     /\ eval.arg.shape \notin {"full", "sparse"} => eval.result.state = AllNull
     /\ eval.arg.shape \in {"full", "sparse"} => eval.result.state = eval.arg.state

\* an object with Dallas in it, inside a code fence
C28_Witness ==
  /\ eval.fn = "extractLeadStateFromHistory"
  /\ eval.arg.shape = "fenced"
  /\ eval.arg.state.location = V_Dallas
  /\ eval.arg.content[3] = Tok("key", "location", <<>>)
  /\ eval.arg.content[5] = Tok("str", "", V_Dallas)
  /\ ~eval.result.threw
  /\ eval.result.state = AllNull

\* the first field of the order whose value is null or empty
FirstUnset(state) ==
  LET unset == {i \in 1..Len(fieldsInOrder) : state[fieldsInOrder[i]] \in {Null, V_empty}}
  IN  IF unset = {} THEN "none"
      ELSE fieldsInOrder[CHOOSE i \in unset : \A j \in unset : i <= j]

\* C29: In the extraction variant generateSmartReply, unless it answers with
\* the booking link, asks about exactly one field: the first one, in the order
\* location, budget, timeline, home_type, bedrooms, preapproval, motivation,
\* whose extracted value is null or empty ("unknown" counts as set); when no
\* field is unset it sends the summary-and-scheduling-offer instruction.
C29_AsksFirstUnsetField ==
  (eval.fn = "generateSmartReply" /\ eval.result.kind # "booking")
  => IF FirstUnset(eval.arg.extracted) = "none"
     THEN eval.result.kind = "summary"
     ELSE eval.result.kind = "ask"
          /\ eval.result.field = FirstUnset(eval.arg.extracted)

\* C30: When getNextStep takes the fallback branch (a lead with the script
\* finished, asked_for_meeting false and meeting_scheduled false) it returns
\* the generic reply, raises no error and issues no lead upsert: the request
\* goes on to log and deliver that reply, is answered with 200, and the leads
\* table is left as it was.
C30_FallbackChangesNothing ==
  [][ (/\ RequestStep
       /\ last'.kind = "webhook"
       /\ last'.lead.current_question_index >= ScriptLength
       /\ ~last'.lead.asked_for_meeting
       /\ ~last'.lead.meeting_scheduled)
      => LET n == Len(http'.calls)
         IN  /\ last'.reply = FallbackReply
             /\ last'.oks = <<>>
             /\ \A i \in 1..n : http'.calls[i].op # "upsert"
             /\ leads' = leads
             /\ http'.status = 200
             /\ http'.calls[n].op = "send"
             /\ http'.calls[n].text = FallbackReply.message ]_vars

C30_Witness ==
  /\ last.kind = "webhook"
  /\ last.reply.type = "fallback"
  /\ http.status = 200
  /\ OnRecord /\ last.lead = Stored
  /\ Stored.current_question_index = ScriptLength
  /\ Stored.qualification_complete
  /\ ~Stored.asked_for_meeting /\ ~Stored.meeting_scheduled

\* C31: No webhook call ends with the stored lead at index 7 with
\* asked_for_meeting false and meeting_scheduled false, whichever of the
\* call's lead upserts fail: no lead is left where every later message only
\* yields the fallback reply.
C31_NeverStuck ==
  last.kind = "webhook"
  => ~ (/\ OnRecord
        /\ Stored.current_question_index = ScriptLength
        /\ ~Stored.asked_for_meeting
        /\ ~Stored.meeting_scheduled)

\* C32: Under any interleaving of webhook calls for one phone, the stored
\* meeting_scheduled never goes from true to false, and the stored
\* qualification_complete and current_question_index never move backwards: an
\* interview turn that read an older snapshot does not overwrite a later state.
C32_StoredStateMonotone ==
  [][ /\ Stored.meeting_scheduled => Stored'.meeting_scheduled
      /\ Stored.qualification_complete => Stored'.qualification_complete
      /\ Stored'.current_question_index >= Stored.current_question_index ]_vars

\* the 'ai' messages logged for the lead, oldest first
AiMessagesLogged == SelectSeq(messages, LAMBDA m : m.lead_phone = LeadKey /\ m.sender = "ai")

\* C33: Whenever the interview branch of a webhook request writes the inbound
\* text into the field of script entry i, the most recent 'ai' message logged
\* for that lead before the request is the prompt of script entry i: an answer
\* is stored under the question the lead was last asked.
C33_AnswerUnderLastPrompt ==
  [][ (/\ http'.request.endpoint = "POST /whatsapp-webhook"
       /\ last'.kind = "webhook"
       /\ last'.reply.type \in {"question", "scheduling"}
       /\ last'.oks[1])
      => /\ AiMessagesLogged # <<>>
         /\ AiMessagesLogged[Len(AiMessagesLogged)].message
              = <<QUALIFICATION_QUESTIONS[last'.lead.current_question_index + 1].question>> ]_vars

\* C34: With every store operation succeeding and calls processed one at a
\* time, a fresh lead is terminal after exactly 8 inbound messages: the replies
\* to messages 1..6 are prompts 2..7, the reply to message 7 is the scheduling
\* offer, the reply to message 8 is the confirmation or the decline, and every
\* message from the 9th on gets the fixed acknowledgement.
C34_EightMessagesToTerminal ==
  last.kind = "webhook"
  => /\ Stored.meeting_scheduled <=> nMessages >= 8
     /\ nMessages \in 1..6
        => /\ last.reply.type = "question"
           /\ last.reply.message = <<QUALIFICATION_QUESTIONS[nMessages + 1].question>>
     /\ nMessages = 7
        => /\ last.reply.type = "scheduling"
           /\ Stored.qualification_complete /\ Stored.asked_for_meeting
     /\ nMessages = 8
        => last.reply \in {MeetingConfirmedReply, MeetingDeclinedReply}
     /\ nMessages >= 9
        => last.reply = AlreadyHandledReply

\* the ninth message of a conversation has been acknowledged
C34_Witness ==
  /\ nMessages = 9
  /\ last.kind = "webhook" /\ last.reply = AlreadyHandledReply
  /\ OnRecord /\ Stored.meeting_scheduled
  /\ Stored.current_question_index = ScriptLength

\* C35: The stored lead_score is non-null iff the stored
\* qualification_complete is true, and once the score has been written at
\* completion no later message changes it.
C35_ScoreWrittenOnce ==
  [][ /\ (Stored'.lead_score # "null") <=> Stored'.qualification_complete
      /\ (WebhookStep /\ Stored.qualification_complete)
         => Stored'.lead_score = Stored.lead_score ]_vars

\* C36: The reply of a webhook request is delivered to the address the inbound
\* message came from: the destination handed to the messaging provider equals
\* the From value of the request, one protocol tag followed by the number.
C36_ReplyToSender ==
  http.request.endpoint = "POST /whatsapp-webhook"
  => \A i \in DOMAIN http.calls :
       http.calls[i].op = "send" => http.calls[i].key = http.request.phone

\* the Body values that ask for a call: a yes word with a call word, or one
\* of the scheduling phrases
AsksForCall == {L_ok_call_me, A_yeah}

C38_CreateKeepsProgress ==
  [][ /\ DOMAIN leads \subseteq DOMAIN leads'
      /\ (last'.kind = "create" /\ OnRecord)
         => /\ \A k \in (DOMAIN Stored) \ {"name", "source"} : Stored'[k] = Stored[k]
            /\ IF last'.oks[1]
               THEN Stored'.name \in LeadNames /\ Stored'.source = "manual"
               ELSE leads' = leads ]_vars

\* a lead whose meeting is scheduled has been created again by hand
C38_Witness ==
  /\ last.kind = "create" /\ last.oks = <<TRUE>>
  /\ OnRecord
  /\ Stored.name \in LeadNames /\ Stored.source = "manual"
  /\ Stored.current_question_index = ScriptLength
  /\ Stored.qualification_complete
  /\ Stored.meeting_scheduled
  /\ Stored.lead_score # "null"

=============================================================================
